---- MODULE Spec2Model ----
(***************************************************************************)
(* Easy-PDF: the document state (page list + annotation list) of the       *)
(* usePDFStore hook with the PageManager and Editor components that drive  *)
(* it, and of the monolithic App component (App.tsx), which keeps the      *)
(* same state in its own useState cells.                                   *)
(*                                                                         *)
(* Percentages are held in half-percent units (Pct(1) = 2) so that sizes   *)
(* below the 1% resize threshold other than 0 can be represented.  Page    *)
(* indices are zero-based as in the code; sequences are one-based, so the  *)
(* page with index i is pages[i + 1].                                      *)
(***************************************************************************)
EXTENDS Integers, Sequences, FiniteSets, TLC

VARIABLES
  pdfDoc,               \* numPages of the open pdf.js document, 0 when none
  pages,                \* PDFPageData[]
  annotations,          \* Annotation[]
  draggedItem,          \* PageManager: index picked up at drag start, or NULL
  draggedPageIndex,     \* App.tsx: index picked up at drag start, or NULL
  dragging,             \* App.tsx: a thumbnail drag is under way (browser state)
  selectedPageIndex,    \* App.tsx: page the page tools act on
  mode,                 \* AppMode
  activeTool,           \* Editor: active tool id, "" when none
  selectedAnnotationId, \* Editor: selected annotation id, or NULL
  interactionState,     \* Editor: the gesture in progress
  currentPath,          \* Editor: freehand samples of the gesture in progress
  viewSelection,        \* Editor: view-mode area selection
  contextMenu,          \* Editor: the selection's context menu is shown
  longPressTimer,       \* Editor: the 500 ms long-press timer of a touch
  pointerHeld,          \* browser: "no", or what the pointer-down held now
                        \* did: "gesture" (it set interactionState), "other"
  clock,                \* Date.now()
  ocrTasks,             \* Editor: OCR runs started and not yet settled
  pdfPage,              \* PDFPage: one page component (props and state)
  renders,              \* PDFPage: the render() closures of its effect runs
  currentFile,          \* usePDFStore: record of the open file
  library,              \* IndexedDB 'files' store
  pdfFile,              \* App: the File last picked in the upload input
  draggedItemUpdate,    \* PageManager: setDraggedItem value not yet rendered
  pickedPage,           \* history: id of the page picked at drag start
  exportRun,            \* usePDFStore: the exportPDF call in progress
  pendingRequests,      \* DB proxy: ids of the promises not yet settled
  db,                   \* DB worker: the database is open
  workerInbox,          \* messages posted to the worker, not yet handled
  workerJobs,           \* DB worker: onmessage runs past their first await
  mainInbox,            \* messages posted by the worker, not yet handled
  answers,              \* history: messages the proxy received, per id
  lastEvent             \* history: the handler that ran last, with its inputs

vars == << pdfDoc, pages, annotations, draggedItem, draggedPageIndex,
           dragging, selectedPageIndex, mode, activeTool, selectedAnnotationId,
           interactionState, currentPath, viewSelection, contextMenu,
           longPressTimer, pointerHeld, clock, ocrTasks, pdfPage, renders,
           currentFile, library, pdfFile, draggedItemUpdate, pickedPage,
           exportRun, pendingRequests, db, workerInbox, workerJobs,
           mainInbox, answers, lastEvent >>

pageVars   == << pdfDoc, pages, annotations >>
appVars    == << draggedPageIndex, dragging, selectedPageIndex >>
editorVars == << mode, activeTool, selectedAnnotationId, interactionState,
                 currentPath, viewSelection, contextMenu, longPressTimer,
                 pointerHeld >>
renderVars == << pdfPage, renders >>
fileVars   == << currentFile, library, pdfFile >>
dragVars   == << draggedItemUpdate, pickedPage >>
proxyVars  == << pendingRequests, db, workerInbox, workerJobs, mainInbox,
                 answers >>
backVars   == << dragVars, exportRun, proxyVars >>
asyncVars  == << ocrTasks, renderVars, fileVars, backVars >>

----------------------------------------------------------------------------
(* Bounds *)

MaxPages == 3
MaxAnns == 2
MaxClock == 3

----------------------------------------------------------------------------
(* Values *)

\* null / undefined where the code holds an index or an id (never negative)
NULL == 0 - 1

Point(x, y) == [x |-> x, y |-> y]
Rect(x, y, w, h) == [x |-> x, y |-> y, w |-> w, h |-> h]

\* Placeholders for the fields a null / undefined object does not have
NoPoint == Point(0, 0)
NoRect == Rect(0, 0, 0, 0)

Pct(n) == 2 * n

Min(a, b) == IF a < b THEN a ELSE b
Max(a, b) == IF a > b THEN a ELSE b
Abs(a) == IF a < 0 THEN 0 - a ELSE a

Event(op, args) == [op |-> op, args |-> args]

\* A record of the Annotation interface; points is empty unless freehand.
\* The optional fields are present in every record: fill, content and
\* imageData are "" when undefined, opacity (in hundredths) and strokeWidth
\* are 0 when undefined, which is how the code's "||" and "if" read them.
Annotation(id, pageIndex, type, x, y, w, h, points) ==
  [id |-> id, pageIndex |-> pageIndex, type |-> type,
   x |-> x, y |-> y, width |-> w, height |-> h, points |-> points,
   color |-> "#000000", fill |-> "", opacity |-> 0, strokeWidth |-> 0,
   content |-> "", imageData |-> ""]

\* The pages loadPDF builds for a document of n pages: one per source page,
\* in source order, unrotated, ids made of the load time and the position.
FreshPages(n, now) ==
  [i \in 1..n |-> [id |-> << now, i - 1 >>, originalIndex |-> i, rotation |-> 0]]

----------------------------------------------------------------------------
(* Array helpers: index arguments are zero-based, as in the code *)

\* prev.filter((_, idx) => idx !== pageIndex)
RemoveAt(s, idx) ==
  [k \in 1..(Len(s) - (IF idx >= 0 /\ idx < Len(s) THEN 1 ELSE 0)) |->
     IF k <= idx THEN s[k] ELSE s[k + 1]]

\* s.splice(idx, 0, e) for 0 <= idx <= s.length
InsertAt(s, idx, e) ==
  [k \in 1..(Len(s) + 1) |->
     IF k <= idx THEN s[k] ELSE IF k = idx + 1 THEN e ELSE s[k - 1]]

\* const [removed] = a.splice(from, 1); a.splice(to, 0, removed)
MoveItem(s, from, to) == InsertAt(RemoveAt(s, from), to, s[from + 1])

----------------------------------------------------------------------------
(* usePDFStore: annotation operations *)

\* { ...ann, ...newProps }
Merge(ann, newProps) ==
  [f \in DOMAIN ann |-> IF f \in DOMAIN newProps THEN newProps[f] ELSE ann[f]]

\* prev.map(ann => ({ ...ann, ...newProps })): the id is not compared
UpdateAnnotationList_All(anns, id, newProps) ==
  [k \in 1..Len(anns) |-> Merge(anns[k], newProps)]

\* prev.map(ann => ann.id === id ? { ...ann, ...newProps } : ann)
UpdateAnnotationList(anns, id, newProps) ==
  [k \in 1..Len(anns) |->
     IF anns[k].id = id THEN Merge(anns[k], newProps) ELSE anns[k]]

\* [ann, ...prev]: the new annotation put first instead of last
AddAnnotationList_Prepend(anns, ann) == << ann >> \o anns

\* [...prev, ann]
AddAnnotationList(anns, ann) == Append(anns, ann)

\* prev.filter(a => a.id !== id)
DeleteAnnotationList(anns, id) == SelectSeq(anns, LAMBDA a : a.id # id)

----------------------------------------------------------------------------
(* usePDFStore: page operations *)

\* deletePage, first annotation updater: prev.filter(a => a.pageIndex !== pageIndex)
DropPageAnnotations(anns, pageIndex) ==
  SelectSeq(anns, LAMBDA a : a.pageIndex # pageIndex)

ShiftAfterDelete_NoShift(anns, pageIndex) == anns

\* deletePage, second annotation updater: later pages move up by one
ShiftAfterDelete(anns, pageIndex) ==
  [k \in 1..Len(anns) |->
     IF anns[k].pageIndex > pageIndex
       THEN [anns[k] EXCEPT !.pageIndex = @ - 1]
       ELSE anns[k]]

\* deletePage: the three state updaters, applied in the order they are queued
DeletePagePages(ps, pageIndex) == RemoveAt(ps, pageIndex)
DeletePageAnnotations(anns, pageIndex) ==
  ShiftAfterDelete(DropPageAnnotations(anns, pageIndex), pageIndex)

\* movePage: only the page list is spliced
MovePagePages(ps, dragIndex, hoverIndex) == MoveItem(ps, dragIndex, hoverIndex)

----------------------------------------------------------------------------
(* Initial state: the component state right after mount, no document open *)

\* setInteractionState({ type: 'idle' })
IdleState ==
  [type |-> "idle", pageIndex |-> NULL, startCoords |-> NoPoint,
   currentCoords |-> NoPoint, targetId |-> NULL, handle |-> "",
   toolType |-> "", initialRect |-> NoRect]

\* No page is being dragged
NoPage == << >>

\* No setDraggedItem call waits for a render
NoUpdate == [pending |-> FALSE, value |-> NULL]

\* No exportPDF call is in progress
NoExport ==
  [active |-> FALSE, numPages |-> 0, pages |-> << >>, annotations |-> << >>,
   written |-> << >>]

\* viewSelection === null
NoSelection ==
  [visible |-> FALSE, pageIndex |-> NULL, start |-> NoPoint, end |-> NoPoint]

\* longPressTimerRef.current === null
NoTimer == [pending |-> FALSE, pageIndex |-> NULL, coords |-> NoPoint]

\* The bytes handed to pdf.js: a document of numPages pages, or bytes that
\* getDocument rejects
PdfData(numPages) == [pdf |-> "ok", numPages |-> numPages]
MalformedData == [pdf |-> "malformed", numPages |-> 0]
NoData == [pdf |-> "none", numPages |-> 0]

\* The fileRecord loadPDF builds and the library keeps
FileRecord(id, name, data, pgs, anns) ==
  [id |-> id, name |-> name, file |-> data, pages |-> pgs,
   annotations |-> anns]

\* `pdf-${Date.now()}`, `imported-${Date.now()}`
FileId(prefix, now) == << prefix, now >>

\* currentFile === null
NoFile == FileRecord(<< >>, "", NoData, << >>, << >>)

\* A File picked in an upload input or dropped on the dashboard: a PDF, or
\* an .epdf project (container "ok": it unpacks to a record with the PDF
\* bytes, pages and annotations below; "corrupt": it does not)
PickedFile(name, kind, container, data, pgs, anns) ==
  [name |-> name, kind |-> kind, container |-> container, data |-> data,
   pages |-> pgs, annotations |-> anns]

\* pdfFile === null
NoUpload == PickedFile("", "none", "none", NoData, << >>, << >>)

\* No PDFPage is mounted
\* effect is the render() run the current effect run owns (0: none);
\* textLayer is the run that wrote the text layer last (0: never written).
NoPDFPage ==
  [mounted |-> FALSE, pageNumber |-> 0, onEmptyPageFound |-> FALSE,
   isVisible |-> FALSE, isRendered |-> FALSE, textLayer |-> 0, effect |-> 0]

InitEditor ==
  /\ mode = "VIEW"
  /\ activeTool = ""
  /\ selectedAnnotationId = NULL
  /\ interactionState = IdleState
  /\ currentPath = << >>
  /\ viewSelection = NoSelection
  /\ contextMenu = FALSE
  /\ longPressTimer = NoTimer
  /\ pointerHeld = "no"

Init ==
  /\ pdfDoc = 0
  /\ pages = << >>
  /\ annotations = << >>
  /\ draggedItem = NULL
  /\ draggedPageIndex = NULL
  /\ dragging = FALSE
  /\ selectedPageIndex = 0
  /\ InitEditor
  /\ clock = 0
  /\ ocrTasks = { }
  /\ pdfPage = NoPDFPage
  /\ renders = << >>
  /\ currentFile = NoFile
  /\ library = { }
  /\ pdfFile = NoUpload
  /\ draggedItemUpdate = NoUpdate
  /\ pickedPage = NoPage
  /\ exportRun = NoExport
  /\ pendingRequests = { }
  /\ db = FALSE
  /\ workerInbox = << >>
  /\ workerJobs = { }
  /\ mainInbox = << >>
  /\ answers = << >>
  /\ lastEvent = Event("init", << >>)

\* Time passes between two events.
Tick ==
  /\ clock < MaxClock
  /\ clock' = clock + 1
  /\ UNCHANGED asyncVars
  /\ lastEvent' = Event("tick", << >>)
  /\ UNCHANGED << pageVars, draggedItem, appVars,
                  editorVars >>

----------------------------------------------------------------------------
(* usePDFStore driven by PageManager (PAGES mode) and by its annotation API *)

PageIndices == 0..(Len(pages) - 1)

AnnotationIds == {1, 2}

\* An annotation as the store's callers pass it: only id and pageIndex vary.
StoreAnnotation(id, pageIndex) ==
  Annotation(id, pageIndex, "rect", Pct(10), Pct(10), Pct(20), Pct(20), << >>)

\* loadPDF(data, name) without a saved state: pages from the document, no
\* annotations, a new file record
loadPDF(numPages) ==
  /\ pdfDoc' = numPages
  /\ pages' = FreshPages(numPages, clock)
  /\ annotations' = << >>
  /\ currentFile' = FileRecord(FileId("pdf", clock), "document.pdf",
                               PdfData(numPages),
                               FreshPages(numPages, clock), << >>)
  /\ UNCHANGED << ocrTasks, renderVars, backVars, library, pdfFile >>
  /\ lastEvent' = Event("loadPDF", << numPages >>)
  /\ UNCHANGED << draggedItem, appVars, editorVars,
                  clock >>

addAnnotation(ann) ==
  /\ Len(annotations) < MaxAnns
  /\ annotations' = AddAnnotationList(annotations, ann)
  /\ UNCHANGED asyncVars
  /\ lastEvent' = Event("addAnnotation", << ann.id, ann.pageIndex >>)
  /\ UNCHANGED << pdfDoc, pages, draggedItem, appVars, editorVars, clock >>

updateAnnotation(id, newProps) ==
  /\ annotations' = UpdateAnnotationList(annotations, id, newProps)
  /\ UNCHANGED asyncVars
  /\ lastEvent' = Event("updateAnnotation", << id >>)
  /\ UNCHANGED << pdfDoc, pages, draggedItem, appVars, editorVars, clock >>

deleteAnnotation(id) ==
  /\ annotations' = DeleteAnnotationList(annotations, id)
  /\ UNCHANGED asyncVars
  /\ lastEvent' = Event("deleteAnnotation", << id >>)
  /\ UNCHANGED << pdfDoc, pages, draggedItem, appVars, editorVars, clock >>

\* PageManager's delete button: onDeletePage(index) is the store's deletePage
deletePage(pageIndex) ==
  /\ pages' = DeletePagePages(pages, pageIndex)
  /\ annotations' = DeletePageAnnotations(annotations, pageIndex)
  /\ UNCHANGED asyncVars
  /\ lastEvent' = Event("deletePage", << pageIndex >>)
  /\ UNCHANGED << pdfDoc, draggedItem, appVars,
                  editorVars, clock >>

onDragStart(index) ==
  /\ draggedItem' = index
  /\ UNCHANGED asyncVars
  /\ lastEvent' = Event("onDragStart", << index >>)
  /\ UNCHANGED << pageVars, appVars, editorVars,
                  clock >>

\* PageManager.onDragOver: a hover over another thumbnail moves the page at once
onDragOver(index) ==
  /\ draggedItem # NULL
  /\ draggedItem # index
  /\ pages' = MovePagePages(pages, draggedItem, index)
  /\ draggedItem' = index
  /\ UNCHANGED asyncVars
  /\ lastEvent' = Event("movePage", << draggedItem, index >>)
  /\ UNCHANGED << pdfDoc, annotations, appVars,
                  editorVars, clock >>

onDragEnd ==
  /\ draggedItem # NULL
  /\ draggedItem' = NULL
  /\ UNCHANGED asyncVars
  /\ lastEvent' = Event("onDragEnd", << >>)
  /\ UNCHANGED << pageVars, appVars, editorVars,
                  clock >>

\* A drag holds the pointer from dragstart to dragend: only drag-over events
\* arrive in between.
NoDrag == draggedItem = NULL

NextStore ==
  \/ \E n \in 1..MaxPages : NoDrag /\ loadPDF(n)
  \/ \E id \in AnnotationIds, p \in PageIndices :
       NoDrag /\ addAnnotation(StoreAnnotation(id, p))
  \/ \E id \in AnnotationIds : NoDrag /\ updateAnnotation(id, [x |-> Pct(30)])
  \/ \E id \in AnnotationIds : NoDrag /\ deleteAnnotation(id)
  \/ \E i \in PageIndices : NoDrag /\ deletePage(i)
  \/ \E i \in PageIndices : NoDrag /\ onDragStart(i)
  \/ \E i \in PageIndices : onDragOver(i)
  \/ onDragEnd

SpecStore == Init /\ [][NextStore]_vars

----------------------------------------------------------------------------
(* App.tsx: the same document state kept in the App component, with its own *)
(* page tools (PAGES mode thumbnails) and image upload (EDIT mode)          *)

\* handleDrop: the annotation re-indexing that follows the page splice
HandleDropAnnotations(anns, dragged, target) ==
  [k \in 1..Len(anns) |->
     LET p == anns[k].pageIndex
         newIndex ==
           IF p = dragged THEN target
           ELSE IF dragged < target
                  THEN (IF p > dragged /\ p <= target THEN p - 1 ELSE p)
           ELSE IF dragged > target
                  THEN (IF p >= target /\ p < dragged THEN p + 1 ELSE p)
           ELSE p
     IN [anns[k] EXCEPT !.pageIndex = newIndex]]

\* handleDeletePage: prev.filter(a => a.pageIndex !== idx).map(shift up)
HandleDeletePageAnnotations(anns, idx) ==
  LET kept == SelectSeq(anns, LAMBDA a : a.pageIndex # idx) IN
  [k \in 1..Len(kept) |->
     [kept[k] EXCEPT !.pageIndex = IF @ > idx THEN @ - 1 ELSE @]]

\* App.loadPDF: new pages and page selection; the annotation list is not touched
App_loadPDF(numPages) ==
  /\ pdfDoc' = numPages
  /\ pages' = FreshPages(numPages, clock)
  /\ selectedPageIndex' = 0
  /\ UNCHANGED asyncVars
  /\ lastEvent' = Event("App.loadPDF", << numPages >>)
  /\ UNCHANGED << annotations, draggedItem, draggedPageIndex, dragging,
                  editorVars, clock >>

\* A click on a thumbnail: setSelectedPageIndex(idx)
App_selectPage(idx) ==
  /\ selectedPageIndex' = idx
  /\ UNCHANGED asyncVars
  /\ lastEvent' = Event("App.selectPage", << idx >>)
  /\ UNCHANGED << pageVars, draggedItem, draggedPageIndex, dragging,
                  editorVars, clock >>

\* handleImageUpload: a new image annotation on the selected page
handleImageUpload ==
  /\ Len(annotations) < MaxAnns
  /\ annotations' = Append(annotations,
       Merge(Annotation(clock, selectedPageIndex, "image",
                       Pct(30), Pct(30), Pct(40), Pct(30), << >>),
            [color |-> "transparent", imageData |-> "data:image/png"]))
  /\ selectedAnnotationId' = clock
  /\ UNCHANGED asyncVars
  /\ lastEvent' = Event("App.handleImageUpload", << selectedPageIndex >>)
  /\ UNCHANGED << pdfDoc, pages, draggedItem, appVars, mode, activeTool,
                  interactionState, currentPath, viewSelection, contextMenu,
                  longPressTimer, pointerHeld, clock >>

handleDragStart(index) ==
  /\ draggedPageIndex' = index
  /\ dragging' = TRUE
  /\ UNCHANGED asyncVars
  /\ lastEvent' = Event("App.handleDragStart", << index >>)
  /\ UNCHANGED << pageVars, draggedItem, selectedPageIndex, editorVars, clock >>

\* The drag ends outside every thumbnail: no handler runs, draggedPageIndex stays.
App_dragEndsOutside ==
  /\ dragging
  /\ dragging' = FALSE
  /\ UNCHANGED asyncVars
  /\ lastEvent' = Event("App.dragEndsOutside", << >>)
  /\ UNCHANGED << pageVars, draggedItem, draggedPageIndex, selectedPageIndex,
                  editorVars, clock >>

handleDrop(targetIndex) ==
  /\ dragging
  /\ dragging' = FALSE
  /\ UNCHANGED asyncVars
  /\ lastEvent' = Event("App.handleDrop", << draggedPageIndex, targetIndex >>)
  /\ IF draggedPageIndex = NULL \/ draggedPageIndex = targetIndex
       THEN UNCHANGED << pages, annotations, selectedPageIndex, draggedPageIndex >>
       ELSE /\ pages' = MoveItem(pages, draggedPageIndex, targetIndex)
            /\ selectedPageIndex' = targetIndex
            /\ annotations' =
                 HandleDropAnnotations(annotations, draggedPageIndex, targetIndex)
            /\ draggedPageIndex' = NULL
  /\ UNCHANGED << pdfDoc, draggedItem, editorVars, clock >>

\* handleDeletePage: confirmed is the answer to the confirm() dialog
handleDeletePage(confirmed) ==
  /\ UNCHANGED asyncVars
  /\ lastEvent' = Event("App.handleDeletePage", << selectedPageIndex >>)
  /\ IF \/ Len(pages) <= 1
        \/ selectedPageIndex < 0
        \/ selectedPageIndex >= Len(pages)
        \/ ~confirmed
       THEN UNCHANGED << pages, annotations, selectedPageIndex >>
       ELSE LET idx == selectedPageIndex
                updatedPages == RemoveAt(pages, idx)
            IN
            /\ pages' = updatedPages
            /\ annotations' = HandleDeletePageAnnotations(annotations, idx)
            /\ selectedPageIndex' =
                 IF selectedPageIndex >= Len(updatedPages)
                   THEN Len(updatedPages) - 1
                   ELSE selectedPageIndex
  /\ UNCHANGED << pdfDoc, draggedItem, draggedPageIndex, dragging, editorVars,
                  clock >>

\* The tools and thumbnails are rendered only while a document is open, and a
\* drag holds the pointer until it ends.
AppIdle == pdfDoc > 0 /\ ~dragging

NextApp ==
  \/ \E n \in 1..MaxPages : ~dragging /\ App_loadPDF(n)
  \/ \E i \in PageIndices : AppIdle /\ App_selectPage(i)
  \/ AppIdle /\ handleImageUpload
  \/ \E i \in PageIndices : AppIdle /\ handleDragStart(i)
  \/ App_dragEndsOutside
  \/ \E i \in PageIndices : handleDrop(i)
  \/ \E c \in BOOLEAN : AppIdle /\ handleDeletePage(c)
  \/ ~dragging /\ Tick

SpecApp == Init /\ [][NextApp]_vars

----------------------------------------------------------------------------
(* Claims about the store's page operations, under SpecStore *)

PageIdAt(ps, idx) == ps[idx + 1].id

InRange(anns, ps) ==
  \A k \in 1..Len(anns) : anns[k].pageIndex \in 0..(Len(ps) - 1)

\* The position, among the annotations that are not on page gone, of the
\* k-th annotation of the list before the step.
SurvivorRank(k, gone) ==
  Cardinality({j \in 1..k : annotations[j].pageIndex # gone})

\* The page a page operation of this step deletes, NULL for a move.
DeletedIndex == IF lastEvent'.op = "deletePage" THEN lastEvent'.args[1] ELSE NULL

\* C1: over every movePage and deletePage step, each annotation that survives
\* the step still points at the page (by page id) it pointed at before it.
C1_AnchoredPageKept ==
  [][ (/\ lastEvent'.op \in {"movePage", "deletePage"}
       /\ InRange(annotations, pages))
      => \A k \in 1..Len(annotations) :
           annotations[k].pageIndex # DeletedIndex
           => LET r == SurvivorRank(k, DeletedIndex) IN
              /\ r <= Len(annotations')
              /\ annotations'[r].pageIndex \in 0..(Len(pages') - 1)
              /\ PageIdAt(pages', annotations'[r].pageIndex)
                   = PageIdAt(pages, annotations[k].pageIndex) ]_vars

\* C3: deletePage(i) on a document of more than one page removes page i,
\* removes exactly the annotations on page i, moves the annotations of later
\* pages up by one and leaves those of earlier pages as they were.
C3_DeletePageReindexes ==
  [][ (lastEvent'.op = "deletePage" /\ Len(pages) > 1)
      => LET i == lastEvent'.args[1]
             onPage == {k \in 1..Len(annotations) : annotations[k].pageIndex = i}
         IN
         /\ Len(pages') = Len(pages) - 1
         /\ \A q \in 1..Len(pages') :
              pages'[q] = IF q <= i THEN pages[q] ELSE pages[q + 1]
         /\ Len(annotations') = Len(annotations) - Cardinality(onPage)
         /\ \A k \in 1..Len(annotations) :
              k \notin onPage
              => LET a == annotations[k]
                     b == annotations'[SurvivorRank(k, i)]
                 IN
                 /\ b.id = a.id
                 /\ b.pageIndex =
                      IF a.pageIndex > i THEN a.pageIndex - 1 ELSE a.pageIndex
                 /\ [b EXCEPT !.pageIndex = a.pageIndex] = a ]_vars

\* C3 witness: deletePage(i) has run on a document that had at least three
\* pages, and left one annotation on a page before i and one that came down
\* from page i + 1 to page i.
C3_Witness ==
  /\ lastEvent.op = "deletePage"
  /\ Len(pages) >= 2
  /\ \E k \in 1..Len(annotations) : annotations[k].pageIndex = lastEvent.args[1]
  /\ \E k \in 1..Len(annotations) : annotations[k].pageIndex < lastEvent.args[1]

\* C4: deletePage on a document of exactly one page changes neither the page
\* list nor the annotation list.
C4_LastPageDeleteRejected ==
  [][ (lastEvent'.op = "deletePage" /\ Len(pages) = 1)
      => (pages' = pages /\ annotations' = annotations) ]_vars

\* C5: a page move from index from to index to gives the annotations of the
\* moved page the destination index and shifts the annotations of the pages
\* strictly between source and destination by one, against the move.
C5_MoveShiftsAnnotations ==
  [][ lastEvent'.op = "movePage"
      => LET from == lastEvent'.args[1]
             to == lastEvent'.args[2]
         IN
         /\ Len(annotations') = Len(annotations)
         /\ \A k \in 1..Len(annotations) :
              LET a == annotations[k]
                  b == annotations'[k]
              IN
              /\ a.pageIndex = from => b.pageIndex = to
              /\ (from < a.pageIndex /\ a.pageIndex < to)
                   => b.pageIndex = a.pageIndex - 1
              /\ (to < a.pageIndex /\ a.pageIndex < from)
                   => b.pageIndex = a.pageIndex + 1 ]_vars

----------------------------------------------------------------------------
(* Claims about the document state as a whole *)

\* C2: in every reachable state every annotation's pageIndex is an index of
\* the current page list.
C2_PageIndexInRange == InRange(annotations, pages)

----------------------------------------------------------------------------
(* Editor (VIEW / EDIT modes of the hook-based App): pointer gestures *)

MaxPath == 3

\* getBoundingClientRect() of a rendered page, in client pixels
PageBox == [left |-> 10, top |-> 10, width |-> 200, height |-> 200]

\* The position relative to the box, as a page percentage, without the clamp
LocalCoordsIn_Unclamped(rect, e) ==
  Point(((e.x - rect.left) * Pct(100)) \div rect.width,
        ((e.y - rect.top) * Pct(100)) \div rect.height)

\* PDFPage.getLocalCoords for a container with bounding box rect:
\* client position -> page percentage, clamped
LocalCoordsIn(rect, e) ==
  Point(Max(0, Min(Pct(100),
          ((e.x - rect.left) * Pct(100)) \div rect.width)),
        Max(0, Min(Pct(100),
          ((e.y - rect.top) * Pct(100)) \div rect.height)))

\* PDFPage.getLocalCoords on the rendered page
getLocalCoords(e) == LocalCoordsIn(PageBox, e)

\* Pointer positions the events carry; the last one lies outside the page box
ClientPoints ==
  { Point(50, 50), Point(51, 51), Point(0 - 10, 300) }

\* Where a VIEW-mode area selection is started
ViewPoint == Point(50, 50)

\* The pointer is over the page (a pointer-down only reaches a page this way)
OverPage(e) ==
  /\ e.x >= PageBox.left /\ e.x <= PageBox.left + PageBox.width
  /\ e.y >= PageBox.top /\ e.y <= PageBox.top + PageBox.height

\* Tools of the EDIT toolbar: highlight, whiteout and comment take the same
\* path as rect, latex the same path as text.
EditTools == { "freehand", "text", "rect" }

\* ocrTools
OcrTools == { "ocr_full", "ocr_area", "ocr_math", "ocr_tts" }

\* The page canvas captureAreaAndOCR crops, in canvas pixels
Canvas == [width |-> 200, height |-> 200]

\* An OCR run: the visual index it was started with, the page whose canvas
\* was captured, the area in page percentages and the kind of result
OcrTask(pageIdx, rect, type) ==
  [pageIdx |-> pageIdx, scanned |-> PageIdAt(pages, pageIdx),
   rect |-> rect, type |-> type]

\* handleGlobalMouseUp: typeMap[toolType] || 'text'
OcrType(toolType) ==
  IF toolType = "ocr_math" THEN "math"
  ELSE IF toolType = "ocr_tts" THEN "tts" ELSE "text"

\* captureAreaAndOCR: the OCR runs it starts (none if the page element is
\* missing or the area is under 10 canvas pixels wide or high)
captureAreaAndOCR(pageIdx, start, end, type) ==
  IF \/ pageIdx \notin 0..(Len(pages) - 1)
     \/ Abs(end.x - start.x) * Canvas.width < 10 * Pct(100)
     \/ Abs(end.y - start.y) * Canvas.height < 10 * Pct(100)
    THEN { }
    ELSE { OcrTask(pageIdx,
                   Rect(Min(start.x, end.x), Min(start.y, end.y),
                        Abs(end.x - start.x), Abs(end.y - start.y)),
                   type) }

\* Resize handles drawn on the selected annotation
Handles == { "nw", "se" }

\* annotations.find(a => a.id === id)
HasAnnotation(anns, id) == \E k \in 1..Len(anns) : anns[k].id = id
FindAnnotation(anns, id) ==
  anns[CHOOSE k \in 1..Len(anns) :
         /\ anns[k].id = id
         /\ \A j \in 1..(k - 1) : anns[j].id # id]

\* The annotation's element is under the pointer (its box, or a sample of
\* its path for a freehand stroke)
OnAnnotation(ann, pageIndex, coords) ==
  /\ ann.pageIndex = pageIndex
  /\ IF ann.type = "freehand"
       THEN \E k \in 1..Len(ann.points) : ann.points[k] = coords
       ELSE /\ coords.x >= ann.x /\ coords.x <= ann.x + ann.width
            /\ coords.y >= ann.y /\ coords.y <= ann.y + ann.height

\* A 16px handle centred on a corner of the selected box is under the pointer
OnHandle(ann, handle, pageIndex, coords) ==
  /\ ann.pageIndex = pageIndex
  /\ ann.type # "freehand"
  /\ selectedAnnotationId = ann.id
  /\ LET cx == IF handle = "nw" THEN ann.x ELSE ann.x + ann.width
         cy == IF handle = "nw" THEN ann.y ELSE ann.y + ann.height
     IN  Abs(coords.x - cx) <= Pct(1) /\ Abs(coords.y - cy) <= Pct(1)

\* handlePageMouseDown, box tools: default size of the new annotation
DefaultWidth(tool) == IF tool = "text" THEN Pct(25) ELSE 0
DefaultHeight(tool) == IF tool = "text" THEN Pct(10) ELSE 0

\* SideBar: setMode.  The Editor is mounted in every mode but PAGES, where
\* the PageManager takes its place: entering or leaving PAGES mounts a new
\* Editor, whose state is the initial one.
setMode(m) ==
  /\ pointerHeld = "no"
  /\ mode # m
  /\ mode' = m
  /\ UNCHANGED asyncVars
  /\ lastEvent' = Event("setMode", << >>)
  /\ UNCHANGED << pageVars, draggedItem, appVars, clock, pointerHeld >>
  /\ IF m = "PAGES" \/ mode = "PAGES"
       THEN /\ activeTool' = ""
            /\ selectedAnnotationId' = NULL
            /\ interactionState' = IdleState
            /\ currentPath' = << >>
            /\ viewSelection' = NoSelection
            /\ contextMenu' = FALSE
            /\ longPressTimer' = NoTimer
       ELSE UNCHANGED << activeTool, selectedAnnotationId, interactionState,
                         currentPath, viewSelection, contextMenu,
                         longPressTimer >>

\* Toolbar button of the EDIT or of the OCR toolbar
selectTool(t) ==
  /\ pointerHeld = "no"
  /\ \/ mode = "EDIT" /\ t \notin OcrTools
     \/ mode = "OCR" /\ t \in OcrTools
  /\ activeTool' = IF activeTool = t THEN "" ELSE t
  /\ selectedAnnotationId' = NULL
  /\ UNCHANGED asyncVars
  /\ lastEvent' = Event("selectTool", << >>)
  /\ UNCHANGED << pageVars, draggedItem, appVars, mode, interactionState,
                  currentPath, viewSelection, contextMenu, longPressTimer,
                  clock,
                  pointerHeld >>

\* The delete button without its setSelectedAnnotationId(null)
deleteSelected_KeepsSelection ==
  /\ pointerHeld = "no"
  /\ mode = "EDIT"
  /\ HasAnnotation(annotations, selectedAnnotationId)
  /\ annotations' = DeleteAnnotationList(annotations, selectedAnnotationId)
  /\ UNCHANGED asyncVars
  /\ lastEvent' = Event("deleteSelected", << >>)
  /\ UNCHANGED << pdfDoc, pages, draggedItem, appVars, mode, activeTool,
                  selectedAnnotationId, interactionState, currentPath,
                  viewSelection, contextMenu, longPressTimer, clock,
                  pointerHeld >>

\* Properties panel: delete button of the selected annotation
deleteSelected ==
  /\ pointerHeld = "no"
  /\ mode = "EDIT"
  /\ HasAnnotation(annotations, selectedAnnotationId)
  /\ annotations' = DeleteAnnotationList(annotations, selectedAnnotationId)
  /\ selectedAnnotationId' = NULL
  /\ UNCHANGED asyncVars
  /\ lastEvent' = Event("deleteSelected", << >>)
  /\ UNCHANGED << pdfDoc, pages, draggedItem, appVars, mode, activeTool,
                  interactionState, currentPath, viewSelection, contextMenu,
                  longPressTimer, clock,
                  pointerHeld >>

\* Context menu: cancel
cancelViewSelection ==
  /\ pointerHeld = "no"
  /\ contextMenu /\ viewSelection.visible
  /\ viewSelection' = NoSelection
  /\ contextMenu' = FALSE
  /\ UNCHANGED asyncVars
  /\ lastEvent' = Event("cancelViewSelection", << >>)
  /\ UNCHANGED << pageVars, draggedItem, appVars, mode, activeTool,
                  selectedAnnotationId, interactionState, currentPath,
                  longPressTimer, clock,
                  pointerHeld >>

\* Scroll container onClick: closes the context menu only
closeContextMenu ==
  /\ pointerHeld = "no"
  /\ contextMenu
  /\ contextMenu' = FALSE
  /\ UNCHANGED asyncVars
  /\ lastEvent' = Event("closeContextMenu", << >>)
  /\ UNCHANGED << pageVars, draggedItem, appVars, mode, activeTool,
                  selectedAnnotationId, interactionState, currentPath,
                  viewSelection, longPressTimer, clock,
                  pointerHeld >>

\* The long-press timer set by a touch in VIEW mode expires
longPressFires ==
  /\ longPressTimer.pending
  /\ viewSelection' = [visible |-> TRUE, pageIndex |-> longPressTimer.pageIndex,
                       start |-> longPressTimer.coords,
                       end |-> longPressTimer.coords]
  /\ longPressTimer' = NoTimer
  /\ UNCHANGED asyncVars
  /\ lastEvent' = Event("longPressFires", << >>)
  /\ UNCHANGED << pageVars, draggedItem, appVars, mode, activeTool,
                  selectedAnnotationId, interactionState, currentPath,
                  contextMenu, pointerHeld, clock >>

\* Editor.handlePageMouseDown.  targetId = NULL: the event comes from the
\* page's tool overlay; otherwise from the annotation's element or one of
\* its handles (type "move" / "resize").  The event is stamped with the
\* current time, and time moves on.
handlePageMouseDown(eventType, pageIndex, coords, targetId, type, handle) ==
  /\ pointerHeld = "no"
  /\ clock' = clock + 1
  /\ UNCHANGED << renderVars, backVars, fileVars >>
  /\ lastEvent' = Event("pointerDown", << >>)
  /\ UNCHANGED << pdfDoc, pages, draggedItem, appVars, mode >>
  /\ IF /\ activeTool = "ocr_full"
        /\ mode # "VIEW"
        /\ ~ (targetId # NULL /\ type # "")
       THEN ocrTasks' = ocrTasks \cup
              { OcrTask(pageIndex, Rect(Pct(5), Pct(5), Pct(90), Pct(90)),
                        "text") }
       ELSE UNCHANGED ocrTasks
  /\ IF mode = "VIEW" THEN
       /\ IF targetId = NULL
            THEN IF eventType = "touchstart"
                   THEN /\ longPressTimer' = [pending |-> TRUE,
                                              pageIndex |-> pageIndex,
                                              coords |-> coords]
                        /\ UNCHANGED << viewSelection, contextMenu >>
                   ELSE /\ viewSelection' = [visible |-> TRUE,
                                             pageIndex |-> pageIndex,
                                             start |-> coords, end |-> coords]
                        /\ contextMenu' = FALSE
                        /\ UNCHANGED longPressTimer
            ELSE UNCHANGED << viewSelection, contextMenu, longPressTimer >>
       /\ pointerHeld' = "other"
       /\ UNCHANGED << annotations, activeTool, selectedAnnotationId,
                       interactionState, currentPath >>
     ELSE IF targetId # NULL /\ type # "" THEN
       /\ selectedAnnotationId' = targetId
       /\ interactionState' =
            IF HasAnnotation(annotations, targetId)
              THEN LET ann == FindAnnotation(annotations, targetId)
                   IN  [IdleState EXCEPT
                          !.type = IF type = "move" THEN "moving" ELSE "resizing",
                          !.pageIndex = pageIndex,
                          !.startCoords = coords,
                          !.targetId = targetId,
                          !.handle = handle,
                          !.initialRect = Rect(ann.x, ann.y, ann.width, ann.height)]
              ELSE interactionState
       /\ pointerHeld' = IF HasAnnotation(annotations, targetId)
                            THEN "gesture" ELSE "other"
       /\ UNCHANGED << annotations, activeTool, currentPath, viewSelection,
                       contextMenu, longPressTimer >>
     ELSE IF activeTool = "" THEN
       /\ selectedAnnotationId' = NULL
       /\ pointerHeld' = "other"
       /\ UNCHANGED << annotations, activeTool, interactionState, currentPath,
                       viewSelection, contextMenu, longPressTimer >>
     ELSE IF activeTool = "freehand" THEN
       /\ interactionState' = [IdleState EXCEPT !.type = "drawing",
                                                !.pageIndex = pageIndex]
       /\ currentPath' = << coords >>
       /\ pointerHeld' = "gesture"
       /\ UNCHANGED << annotations, activeTool, selectedAnnotationId,
                       viewSelection, contextMenu, longPressTimer >>
     ELSE IF activeTool \in { "ocr_area", "ocr_math", "ocr_tts" } THEN
       /\ interactionState' = [IdleState EXCEPT !.type = "selecting_area",
                                                !.toolType = activeTool,
                                                !.pageIndex = pageIndex,
                                                !.startCoords = coords,
                                                !.currentCoords = coords]
       /\ pointerHeld' = "gesture"
       /\ UNCHANGED << annotations, activeTool, selectedAnnotationId,
                       currentPath, viewSelection, contextMenu,
                       longPressTimer >>
     ELSE IF activeTool = "ocr_full" THEN
       /\ activeTool' = ""
       /\ pointerHeld' = "other"
       /\ UNCHANGED << annotations, selectedAnnotationId, interactionState,
                       currentPath, viewSelection, contextMenu,
                       longPressTimer >>
     ELSE
       LET newId == clock
           newAnn == Merge(Annotation(newId, pageIndex, activeTool,
                                     coords.x, coords.y,
                                     DefaultWidth(activeTool),
                                     DefaultHeight(activeTool), << >>),
                          [opacity |-> 100,
                           fill |-> IF activeTool = "text" THEN "#ffffff"
                                                           ELSE ""])
       IN  /\ annotations' = AddAnnotationList(annotations, newAnn)
           /\ selectedAnnotationId' = newId
           /\ interactionState' =
                IF DefaultWidth(activeTool) > 0
                  THEN IdleState
                  ELSE [IdleState EXCEPT !.type = "creating",
                                         !.pageIndex = pageIndex,
                                         !.startCoords = coords,
                                         !.targetId = newId]
           /\ pointerHeld' = IF DefaultWidth(activeTool) > 0
                                THEN "other" ELSE "gesture"
           /\ UNCHANGED << activeTool, currentPath, viewSelection, contextMenu,
                           longPressTimer >>

\* PDFPage: a mouse-down on a page where no annotation is, while no tool is
\* active.  The tool overlay that calls handlePageMouseDown is not rendered
\* then; the event lands on the text layer, which has no handler.
textLayerMouseDown ==
  /\ pointerHeld = "no"
  /\ activeTool = ""
  /\ pointerHeld' = "other"
  /\ UNCHANGED asyncVars
  /\ lastEvent' = Event("textLayerMouseDown", << >>)
  /\ UNCHANGED << pageVars, draggedItem, appVars, mode, activeTool,
                  selectedAnnotationId, interactionState, currentPath,
                  viewSelection, contextMenu, longPressTimer, clock >>

\* handlePageMouseMove, resizing: the rectangle the handle drag asks for
ResizedRect(ir, handle, dx, dy) ==
  Rect(IF handle \in { "nw", "sw" } THEN ir.x + dx ELSE ir.x,
       IF handle \in { "nw", "ne" } THEN ir.y + dy ELSE ir.y,
       IF handle \in { "nw", "sw" } THEN ir.w - dx
         ELSE IF handle \in { "ne", "se" } THEN ir.w + dx ELSE ir.w,
       IF handle \in { "nw", "ne" } THEN ir.h - dy
         ELSE IF handle \in { "sw", "se" } THEN ir.h + dy ELSE ir.h)

\* handlePageMouseMove, resizing: each axis is written only if its new size
\* is above 1 (percent)
ApplyResize(anns, id, r) ==
  LET afterW == IF r.w > Pct(1)
                  THEN UpdateAnnotationList(anns, id, [x |-> r.x, width |-> r.w])
                  ELSE anns
  IN  IF r.h > Pct(1)
        THEN UpdateAnnotationList(afterW, id, [y |-> r.y, height |-> r.h])
        ELSE afterW

\* Editor.handlePageMouseMove
handlePageMouseMove(pageIndex, coords) ==
  /\ UNCHANGED asyncVars
  /\ lastEvent' = Event("pointerMove", << >>)
  /\ longPressTimer' = IF longPressTimer.pending /\ ~viewSelection.visible
                         THEN NoTimer ELSE longPressTimer
  /\ UNCHANGED << pdfDoc, pages, draggedItem, appVars, mode, activeTool,
                  selectedAnnotationId, contextMenu, pointerHeld,
                  clock >>
  /\ IF viewSelection.visible /\ viewSelection.pageIndex = pageIndex THEN
       /\ viewSelection' = [viewSelection EXCEPT !.end = coords]
       /\ UNCHANGED << annotations, interactionState, currentPath >>
     ELSE IF \/ interactionState.type = "idle"
             \/ interactionState.pageIndex # pageIndex THEN
       UNCHANGED << annotations, interactionState, currentPath, viewSelection >>
     ELSE IF interactionState.type = "drawing" THEN
       /\ currentPath' = Append(currentPath, coords)
       /\ UNCHANGED << annotations, interactionState, viewSelection >>
     ELSE IF interactionState.type = "selecting_area" THEN
       /\ interactionState' = [interactionState EXCEPT !.currentCoords = coords]
       /\ UNCHANGED << annotations, currentPath, viewSelection >>
     ELSE IF interactionState.type = "creating" THEN
       LET start == interactionState.startCoords
       IN  /\ annotations' = UpdateAnnotationList(annotations,
                 interactionState.targetId,
                 [x |-> Min(coords.x, start.x), y |-> Min(coords.y, start.y),
                  width |-> Abs(coords.x - start.x),
                  height |-> Abs(coords.y - start.y)])
           /\ UNCHANGED << interactionState, currentPath, viewSelection >>
     ELSE IF interactionState.type = "moving" THEN
       LET dx == coords.x - interactionState.startCoords.x
           dy == coords.y - interactionState.startCoords.y
       IN  /\ annotations' = UpdateAnnotationList(annotations,
                 interactionState.targetId,
                 [x |-> interactionState.initialRect.x + dx,
                  y |-> interactionState.initialRect.y + dy])
           /\ UNCHANGED << interactionState, currentPath, viewSelection >>
     ELSE
       LET dx == coords.x - interactionState.startCoords.x
           dy == coords.y - interactionState.startCoords.y
       IN  /\ annotations' = ApplyResize(annotations, interactionState.targetId,
                 ResizedRect(interactionState.initialRect,
                             interactionState.handle, dx, dy))
           /\ UNCHANGED << interactionState, currentPath, viewSelection >>

\* Editor.handleGlobalMouseUp: any mouse-up / touch-end inside the editor
handleGlobalMouseUp ==
  /\ UNCHANGED << renderVars, backVars, fileVars >>
  /\ lastEvent' = Event("pointerUp", << >>)
  /\ longPressTimer' = NoTimer
  /\ pointerHeld' = "no"
  /\ UNCHANGED << pdfDoc, pages, draggedItem, appVars, mode,
                  selectedAnnotationId, viewSelection >>
  /\ IF viewSelection.visible THEN
       /\ contextMenu' = TRUE
       /\ UNCHANGED << annotations, interactionState, currentPath, clock,
                       activeTool, ocrTasks >>
     ELSE
       /\ IF interactionState.type = "selecting_area"
            THEN /\ ocrTasks' = ocrTasks \cup
                      captureAreaAndOCR(interactionState.pageIndex,
                                        interactionState.startCoords,
                                        interactionState.currentCoords,
                                        OcrType(interactionState.toolType))
                 /\ activeTool' = ""
            ELSE UNCHANGED << activeTool, ocrTasks >>
       /\ IF interactionState.type = "drawing" /\ Len(currentPath) > 2
            THEN /\ annotations' = AddAnnotationList(annotations,
                        Merge(Annotation(clock, interactionState.pageIndex,
                                        "freehand", 0, 0, 0, 0, currentPath),
                             [strokeWidth |-> 4]))
                 /\ clock' = clock + 1
            ELSE UNCHANGED << annotations, clock >>
       /\ interactionState' = IdleState
       /\ currentPath' = << >>
       /\ UNCHANGED contextMenu

\* The document the editor works on is open before any gesture
EditorReady == pdfDoc > 0 /\ mode \in { "VIEW", "EDIT" }

\* Events the browser can deliver to the editor.  A pointer-down that is
\* going to add an annotation needs room for it and for its time stamp.
NextEditor ==
  \/ pdfDoc = 0 /\ loadPDF(2)
  \/ \E m \in { "VIEW", "EDIT" } : EditorReady /\ setMode(m)
  \/ \E t \in EditTools : EditorReady /\ selectTool(t)
  \/ EditorReady /\ deleteSelected
  \/ EditorReady /\ cancelViewSelection
  \/ EditorReady /\ closeContextMenu
  \/ EditorReady /\ longPressFires
  \/ \E ev \in { "mousedown", "touchstart" }, p \in PageIndices :
       /\ EditorReady
       /\ mode = "VIEW"
       /\ activeTool # ""
       /\ clock < MaxClock
       /\ handlePageMouseDown(ev, p, getLocalCoords(ViewPoint), NULL, "", "")
  \/ \E p \in PageIndices, e \in { c \in ClientPoints : OverPage(c) } :
       /\ EditorReady
       /\ mode = "EDIT"
       /\ activeTool # ""
       /\ Len(annotations) < MaxAnns
       /\ clock + (IF activeTool = "freehand" THEN 2 ELSE 1) <= MaxClock
       /\ handlePageMouseDown("mousedown", p, getLocalCoords(e), NULL, "", "")
  \/ \E p \in PageIndices, e \in { c \in ClientPoints : OverPage(c) },
        k \in 1..Len(annotations) :
       /\ EditorReady
       /\ clock < MaxClock
       /\ OnAnnotation(annotations[k], p, getLocalCoords(e))
       /\ handlePageMouseDown("mousedown", p, getLocalCoords(e),
                              annotations[k].id, "move", "")
  \/ \E p \in PageIndices, e \in { c \in ClientPoints : OverPage(c) },
        k \in 1..Len(annotations), h \in Handles :
       /\ EditorReady
       /\ clock < MaxClock
       /\ OnHandle(annotations[k], h, p, getLocalCoords(e))
       /\ handlePageMouseDown("mousedown", p, getLocalCoords(e),
                              annotations[k].id, "resize", h)
  \/ \E p \in PageIndices, e \in ClientPoints :
       /\ EditorReady
       /\ Len(currentPath) < MaxPath
       /\ handlePageMouseMove(p, getLocalCoords(e))
  \/ EditorReady /\ handleGlobalMouseUp
  \/ EditorReady /\ textLayerMouseDown

SpecEditor == Init /\ [][NextEditor]_vars

----------------------------------------------------------------------------
(* Claims about the Editor's gestures, checked under SpecEditor *)

\* Local coordinates the modelled pointer positions map to
LocalPoints == { getLocalCoords(e) : e \in ClientPoints }

InPage(v) == v >= 0 /\ v <= Pct(100)

\* The annotations of a list that carry the given id
WithId(anns, id) == { anns[k] : k \in { j \in 1..Len(anns) : anns[j].id = id } }

\* C6: while a box is being created from point A, every pointer-move to a
\* point B on the gesture's page leaves the created annotation at
\* x = min(A.x,B.x), y = min(A.y,B.y), width = |A.x-B.x|, height = |A.y-B.y|,
\* all four within [0,100]; the release that ends the gesture commits that
\* geometry as it is.
C6_CreatingFollowsPointer ==
  [][ /\ \A p \in PageIndices, B \in LocalPoints :
           ( /\ handlePageMouseMove(p, B)
             /\ pointerHeld = "gesture"
             /\ interactionState.type = "creating"
             /\ interactionState.pageIndex = p )
           => \A a \in WithId(annotations', interactionState.targetId) :
                LET A == interactionState.startCoords
                IN  /\ a.x = Min(A.x, B.x)
                    /\ a.y = Min(A.y, B.y)
                    /\ a.width = Abs(A.x - B.x)
                    /\ a.height = Abs(A.y - B.y)
                    /\ InPage(a.x) /\ InPage(a.y)
                    /\ InPage(a.width) /\ InPage(a.height)
      /\ ( /\ handleGlobalMouseUp
           /\ pointerHeld = "gesture"
           /\ interactionState.type = "creating" )
         => annotations' = annotations
    ]_vars

\* C7: when the release ends a box-creation gesture, the created annotation
\* has width > 0 and height > 0.
C7_CreatedBoxHasSize ==
  [][ ( /\ handleGlobalMouseUp
        /\ pointerHeld = "gesture"
        /\ interactionState.type = "creating" )
      => \A a \in WithId(annotations', interactionState.targetId) :
           a.width > 0 /\ a.height > 0
    ]_vars

\* C8: a freehand gesture records the pointer-down point, then one point per
\* pointer-move on the gesture's page; its release adds nothing when fewer
\* than 3 points were recorded, and otherwise appends exactly one freehand
\* annotation on the gesture's page whose points are the recorded samples in
\* order.
C8_FreehandSamples ==
  [][ /\ \A p \in PageIndices, c \in LocalPoints :
           ( /\ handlePageMouseDown("mousedown", p, c, NULL, "", "")
             /\ mode = "EDIT" /\ activeTool = "freehand" )
           => currentPath' = << c >>
      /\ \A p \in PageIndices, c \in LocalPoints :
           ( /\ handlePageMouseMove(p, c)
             /\ pointerHeld = "gesture"
             /\ interactionState.type = "drawing"
             /\ interactionState.pageIndex = p )
           => currentPath' = Append(currentPath, c)
      /\ ( /\ handleGlobalMouseUp
           /\ pointerHeld = "gesture"
           /\ interactionState.type = "drawing" )
         => IF Len(currentPath) >= 3
              THEN /\ Len(annotations') = Len(annotations) + 1
                   /\ SubSeq(annotations', 1, Len(annotations)) = annotations
                   /\ annotations'[Len(annotations')].type = "freehand"
                   /\ annotations'[Len(annotations')].pageIndex =
                        interactionState.pageIndex
                   /\ annotations'[Len(annotations')].points = currentPath
              ELSE annotations' = annotations
    ]_vars

\* C9: a move gesture starts from the annotation's position at pointer-down,
\* and after every pointer-move on the gesture's page the annotation is at
\* that position plus (pointer now - pointer at pointer-down).
C9_MoveIsCumulative ==
  [][ /\ \A p \in PageIndices, c \in LocalPoints, k \in 1..Len(annotations) :
           ( /\ handlePageMouseDown("mousedown", p, c, annotations[k].id,
                                    "move", "")
             /\ mode = "EDIT" )
           => /\ interactionState'.type = "moving"
              /\ interactionState'.startCoords = c
              /\ \E a \in WithId(annotations, annotations[k].id) :
                   /\ interactionState'.initialRect.x = a.x
                   /\ interactionState'.initialRect.y = a.y
      /\ \A p \in PageIndices, c \in LocalPoints :
           ( /\ handlePageMouseMove(p, c)
             /\ pointerHeld = "gesture"
             /\ interactionState.type = "moving"
             /\ interactionState.pageIndex = p )
           => \A a \in WithId(annotations', interactionState.targetId) :
                /\ a.x = interactionState.initialRect.x
                           + (c.x - interactionState.startCoords.x)
                /\ a.y = interactionState.initialRect.y
                           + (c.y - interactionState.startCoords.y)
    ]_vars

\* C10: after every pointer-move of a resize gesture on the gesture's page the
\* annotation's width and height are at least 1 (percent); with the
\* north-west handle and a pointer delta (dx,dy) that keeps a size above 1,
\* the position moves by (dx,dy) and the size by (-dx,-dy) from the
\* rectangle at pointer-down.
C10_ResizeKeepsMinimum ==
  [][ \A p \in PageIndices, c \in LocalPoints :
        ( /\ handlePageMouseMove(p, c)
          /\ pointerHeld = "gesture"
          /\ interactionState.type = "resizing"
          /\ interactionState.pageIndex = p )
        => \A a \in WithId(annotations', interactionState.targetId) :
             LET ir == interactionState.initialRect
                 dx == c.x - interactionState.startCoords.x
                 dy == c.y - interactionState.startCoords.y
             IN  /\ a.width >= Pct(1)
                 /\ a.height >= Pct(1)
                 /\ ( interactionState.handle = "nw" /\ ir.w - dx > Pct(1) )
                    => a.x = ir.x + dx /\ a.width = ir.w - dx
                 /\ ( interactionState.handle = "nw" /\ ir.h - dy > Pct(1) )
                    => a.y = ir.y + dy /\ a.height = ir.h - dy
    ]_vars

\* C11: after every pointer-up (mouse-up or touch-end), whatever the state
\* before it, the interaction state is idle and the freehand path in
\* progress is empty.
C11_PointerUpReturnsToIdle ==
  [][ handleGlobalMouseUp
      => interactionState'.type = "idle" /\ currentPath' = << >>
    ]_vars

\* C12: at most one gesture is active: a view-mode area selection is never
\* set while the interaction state is not idle.
C12_OneGestureAtATime ==
  ~ ( viewSelection.visible /\ interactionState.type # "idle" )

\* ---------------------------------------------------------------------
\* Export: the document exportPDF (store) and handleSavePDF (App.tsx) build
\* ---------------------------------------------------------------------

\* A colour as pdf-lib's rgb() receives it; NoColor is an option left undefined
NoColor == << >>
NaNColor == << 0 - 1, 0 - 1, 0 - 1 >>
HexTable ==
  [h \in { "#000000", "#FFFFFF", "#ffffff", "#FFFF00" } |->
     CASE h = "#000000" -> << 0, 0, 0 >>
       [] h = "#FFFF00" -> << 255, 255, 0 >>
       [] OTHER -> << 255, 255, 255 >>]

\* Dashboard.tsx hexToRgb: black for an empty colour and for every component
\* that does not parse
hexToRgb(hex) == IF hex \in DOMAIN HexTable THEN HexTable[hex] ELSE << 0, 0, 0 >>

\* App.tsx hexToRgb: no fallback, a colour that is not hexadecimal gives NaN
App_hexToRgb(hex) == IF hex \in DOMAIN HexTable THEN HexTable[hex] ELSE NaNColor

\* Text the standard Helvetica font can encode; drawText throws on any other
UnencodableText == "text outside WinAnsi"
WinAnsiEncodable(text) == text # UnencodableText

\* Image data pdf-lib can decode as the format its prefix names
IsPngUrl(data) == data \in { "data:image/png", "data:image/png;truncated" }
IsJpegUrl(data) == data \in { "data:image/jpeg" }
Decodable(data) == data \in { "data:image/png", "data:image/jpeg" }

\* One call on the output page. ann is the position in the annotation list of
\* the annotation being drawn; borderWidth is in half points, opacity in
\* hundredths (100 when the option is not passed: pdf-lib draws opaque).
DrawOp(op, ann, color, borderColor, borderWidth, opacity, render, content) ==
  [op |-> op, ann |-> ann, color |-> color, borderColor |-> borderColor,
   borderWidth |-> borderWidth, opacity |-> opacity,
   render |-> render, content |-> content]

\* What one annotation's drawing did: the calls made, and whether it threw
Drawn(ops) == [ops |-> ops, threw |-> FALSE]
Thrown(ops) == [ops |-> ops, threw |-> TRUE]

\* What can go either way during an export: window.katex loaded or not, its
\* renderToString returning or throwing, the SVG image loading or not
ExportEnvs == [katex : { "ok", "throws", "absent" }, image : { "ok", "error" }]

MathErrorMarkup == "<div style=\"color:red\">Math Error</div>"
NoImage == [render |-> "none", content |-> ""]

\* rasterizeAnnotation: the PNG of the annotation's markup, or null
rasterizeAnnotation(ann, env) ==
  LET markup ==
        IF ann.type = "latex" /\ env.katex # "absent"
          THEN IF env.katex = "ok"
                 THEN [render |-> "mathml", content |-> ann.content]
                 ELSE [render |-> "html", content |-> MathErrorMarkup]
          ELSE [render |-> "html", content |-> ann.content]
  IN  IF env.image = "ok" THEN markup ELSE NoImage

\* exportPDF, the body of the per-annotation try block
AnnotationDraws(ann, k, env) ==
  LET color == hexToRgb(ann.color)
      opacity == IF ann.opacity # 0 THEN ann.opacity ELSE 100
  IN
  IF ann.type \in { "text", "ocr_text", "latex" } THEN
    LET background ==
          IF ann.fill # "" /\ ann.fill # "transparent"
            THEN << DrawOp("drawRectangle", k, hexToRgb(ann.fill), NoColor,
                           0, 100, "", "") >>
            ELSE << >>
        img == rasterizeAnnotation(ann, env)
    IN  Drawn(background \o
              ( IF img # NoImage
                  THEN << DrawOp("drawImage", k, NoColor, NoColor, 0, 100,
                                 img.render, img.content) >>
                  ELSE << >> ))
  ELSE IF ann.type \in { "rect", "highlight" } THEN
    LET fillColor ==
          IF ann.type = "highlight" THEN color
          ELSE IF ann.fill # "" /\ ann.fill # "transparent"
                 THEN hexToRgb(ann.fill)
                 ELSE NoColor
    IN  Drawn(<< DrawOp("drawRectangle", k, fillColor,
                        IF ann.type = "rect" THEN color ELSE NoColor,
                        IF ann.type = "rect"
                          THEN 2 * (IF ann.strokeWidth # 0 THEN ann.strokeWidth
                                                           ELSE 2)
                          ELSE 0,
                        opacity, "", "") >>)
  ELSE IF ann.type = "freehand" /\ Len(ann.points) > 1 THEN
    Drawn([ n \in 1..(Len(ann.points) - 1) |->
              DrawOp("drawLine", k, color, NoColor,
                     2 * (IF ann.strokeWidth # 0 THEN ann.strokeWidth ELSE 4),
                     opacity, "", "") ])
  ELSE IF ann.type = "image" /\ ann.imageData # "" THEN
    IF IsPngUrl(ann.imageData) \/ IsJpegUrl(ann.imageData)
      THEN IF Decodable(ann.imageData)
             THEN Drawn(<< DrawOp("drawImage", k, NoColor, NoColor, 0, 100,
                                  "image", ann.imageData) >>)
             ELSE Thrown(<< >>)
      ELSE Drawn(<< >>)
  ELSE IF ann.type = "comment" THEN
    LET marker == << DrawOp("drawRectangle", k, color, << 0, 0, 0 >>, 2, 100,
                            "", ""),
                     DrawOp("drawText", k, << 0, 0, 0 >>, NoColor, 0, 100,
                            "text", "!") >>
    IN  IF ann.content = "" THEN Drawn(marker)
        ELSE IF WinAnsiEncodable(ann.content)
          THEN Drawn(Append(marker,
                       DrawOp("drawText", k, << 0, 0, 0 >>, NoColor, 0, 100,
                              "text", ann.content)))
          ELSE Thrown(marker)
  ELSE Drawn(<< >>)

\* exportPDF, the loop over one page's annotations: a throw is caught per
\* annotation, the calls made before it stay on the page
RECURSIVE PageDraws(_, _, _, _)
PageDraws(anns, k, pageIndex, env) ==
  IF k > Len(anns) THEN << >>
  ELSE ( IF anns[k].pageIndex = pageIndex
           THEN AnnotationDraws(anns[k], k, env).ops
           ELSE << >> )
       \o PageDraws(anns, k + 1, pageIndex, env)

NoDocument == [status |-> "failed", pages |-> << >>]

\* exportPDF with every copied page left as the source has it, unrotated
ExportPDF_Unrotated(numPages, currentPages, currentAnnotations, env) ==
  [status |-> "ok",
   pages |-> [ i \in 1..Len(currentPages) |->
               [source |-> currentPages[i].originalIndex,
                rotation |-> 0,
                ops |-> PageDraws(currentAnnotations, 1, i - 1, env)] ]]

\* exportPDF: the pages of the written document, or none when the outer
\* catch is reached (copyPages throws on a page the source does not have)
ExportPDF(numPages, currentPages, currentAnnotations, env) ==
  IF \E i \in 1..Len(currentPages) :
       currentPages[i].originalIndex \notin 1..numPages
    THEN NoDocument
    ELSE [status |-> "ok",
          pages |-> [ i \in 1..Len(currentPages) |->
                      [source |-> currentPages[i].originalIndex,
                       rotation |-> currentPages[i].rotation,
                       ops |-> PageDraws(currentAnnotations, 1, i - 1, env)] ]]

\* handleSavePDF, the body of the loop over a page's annotations
App_AnnotationDraws(ann, k) ==
  LET color == App_hexToRgb(ann.color) IN
  IF ann.type = "ocr_text" THEN Drawn(<< >>)
  ELSE IF ann.type = "image" /\ ann.imageData # "" THEN
    IF ( IF IsPngUrl(ann.imageData) THEN Decodable(ann.imageData)
                                    ELSE IsJpegUrl(ann.imageData)
                                         /\ Decodable(ann.imageData) )
      THEN Drawn(<< DrawOp("drawImage", k, NoColor, NoColor, 0, 100,
                           "image", ann.imageData) >>)
      ELSE Thrown(<< >>)
  ELSE IF ann.type = "text" THEN
    IF WinAnsiEncodable(ann.content)
      THEN Drawn(<< DrawOp("drawText", k, color, NoColor, 0, 100,
                           "text", ann.content) >>)
      ELSE Thrown(<< >>)
  ELSE IF ann.type = "highlight" THEN
    Drawn(<< DrawOp("drawRectangle", k, color, NoColor, 0,
                    IF ann.opacity # 0 THEN ann.opacity ELSE 40, "", "") >>)
  ELSE IF ann.type = "rect" THEN
    IF ann.fill # ""
      THEN Drawn(<< DrawOp("drawRectangle", k, App_hexToRgb(ann.fill),
                           NoColor, 0, 100, "", "") >>)
      ELSE Drawn(<< DrawOp("drawRectangle", k, NoColor, color,
                           2 * (IF ann.strokeWidth # 0 THEN ann.strokeWidth
                                                       ELSE 2),
                           100, "", "") >>)
  ELSE IF ann.type = "freehand" /\ Len(ann.points) > 0 THEN
    Drawn(<< DrawOp("drawSvgPath", k, NoColor, color,
                    IF ann.strokeWidth # 0 THEN ann.strokeWidth ELSE 4,
                    IF ann.opacity # 0 THEN ann.opacity ELSE 100, "", "") >>)
  ELSE IF ann.type = "comment" THEN
    LET marker == << DrawOp("drawRectangle", k, << 252, 214, 99 >>,
                            << 28, 26, 23 >>, 2, 100, "", ""),
                     DrawOp("drawText", k, << 28, 26, 23 >>, NoColor, 0, 100,
                            "text", "!") >>
        box == DrawOp("drawRectangle", k, << 255, 255, 255 >>,
                      << 204, 204, 204 >>, 2, 100, "", "")
    IN  IF ann.content = "" THEN Drawn(marker)
        ELSE IF WinAnsiEncodable(ann.content)
          THEN Drawn(marker \o << box,
                       DrawOp("drawText", k, << 0, 0, 0 >>, NoColor, 0, 100,
                              "text", ann.content) >>)
          ELSE Thrown(Append(marker, box))
  ELSE Drawn(<< >>)

\* handleSavePDF, the loop over one page's annotations: nothing catches a
\* throw here, it ends the loop
RECURSIVE App_PageDraws(_, _, _)
App_PageDraws(anns, k, pageIndex) ==
  IF k > Len(anns) THEN Drawn(<< >>)
  ELSE IF anns[k].pageIndex # pageIndex THEN App_PageDraws(anns, k + 1, pageIndex)
  ELSE LET d == App_AnnotationDraws(anns[k], k)
       IN  IF d.threw THEN d
           ELSE LET rest == App_PageDraws(anns, k + 1, pageIndex)
                IN  [ops |-> d.ops \o rest.ops, threw |-> rest.threw]

\* handleSavePDF: the pages of the written document, or none when the catch
\* around the whole function is reached
HandleSavePDF(numPages, currentPages, currentAnnotations) ==
  IF \/ \E i \in 1..Len(currentPages) :
          currentPages[i].originalIndex \notin 1..numPages
     \/ \E i \in 1..Len(currentPages) :
          App_PageDraws(currentAnnotations, 1, i - 1).threw
    THEN NoDocument
    ELSE [status |-> "ok",
          pages |-> [ i \in 1..Len(currentPages) |->
                      [source |-> currentPages[i].originalIndex,
                       rotation |-> currentPages[i].rotation,
                       ops |-> App_PageDraws(currentAnnotations, 1, i - 1).ops] ]]

\* exportPDF: returns at once without an open file
exportPDF(env) ==
  /\ pdfDoc # 0
  /\ UNCHANGED asyncVars
  /\ lastEvent' = Event("exportPDF",
                        << ExportPDF(pdfDoc, pages, annotations, env), env >>)
  /\ UNCHANGED << pageVars, draggedItem, appVars, editorVars, clock >>

\* handleSavePDF: returns at once without an open file
handleSavePDF ==
  /\ pdfDoc # 0
  /\ UNCHANGED asyncVars
  /\ lastEvent' = Event("App.handleSavePDF",
                        << HandleSavePDF(pdfDoc, pages, annotations) >>)
  /\ UNCHANGED << pageVars, draggedItem, appVars, editorVars, clock >>

\* Annotations as the tools and the OCR make them, and as the Annotation
\* interface allows the store's callers to pass them
Whiteout(id, p) ==
  Merge(StoreAnnotation(id, p),
       [fill |-> "#FFFFFF", color |-> "#FFFFFF", opacity |-> 100])
Highlight(id, p, opacity) ==
  Merge(StoreAnnotation(id, p),
       [type |-> "highlight", color |-> "#FFFF00", opacity |-> opacity])
Latex(id, p) ==
  Merge(Annotation(id, p, "latex", Pct(10), Pct(10), Pct(30), Pct(15), << >>),
       [content |-> "\\sum_{i=0}^n x_i", fill |-> "transparent"])
OcrText(id, p) ==
  Merge(StoreAnnotation(id, p),
       [type |-> "ocr_text", color |-> "transparent", content |-> "word"])
TextBox(id, p, content) ==
  Merge(Annotation(id, p, "text", Pct(10), Pct(10), Pct(25), Pct(10), << >>),
       [content |-> content, fill |-> "#ffffff", opacity |-> 100])
Picture(id, p, data) ==
  Merge(Annotation(id, p, "image", Pct(30), Pct(30), Pct(40), Pct(30), << >>),
       [color |-> "transparent", imageData |-> data])

ExportAnnotations(id, p) ==
  { StoreAnnotation(id, p), Whiteout(id, p),
    Highlight(id, p, 40), Highlight(id, p, 0),
    Latex(id, p), OcrText(id, p),
    TextBox(id, p, UnencodableText), Picture(id, p, "data:image/png;truncated") }

NextExport ==
  \/ \E n \in 1..MaxPages : loadPDF(n)
  \/ \E id \in AnnotationIds, p \in PageIndices :
       \E ann \in ExportAnnotations(id, p) : addAnnotation(ann)
  \/ \E id \in AnnotationIds : deleteAnnotation(id)
  \/ \E env \in ExportEnvs : exportPDF(env)
  \/ handleSavePDF

SpecExport == Init /\ [][NextExport]_vars

\* The document the last step exported, when the last step was an export
ExportEvents == { "exportPDF", "App.handleSavePDF" }
Exporting == lastEvent.op \in ExportEvents
Exported == lastEvent.args[1]
ExportEnv == lastEvent.args[2]

\* What the exporting implementation draws for the k-th annotation alone
OwnDraws(k) ==
  IF lastEvent.op = "exportPDF"
    THEN AnnotationDraws(annotations[k], k, ExportEnv)
    ELSE App_AnnotationDraws(annotations[k], k)

\* The calls the exported page made for the k-th annotation, in order
DrawsFor(page, k) ==
  LET ForK(o) == o.ann = k IN SelectSeq(page.ops, ForK)

\* The calls the exported document made for the k-th annotation, on any page
AllDrawsFor(k) ==
  UNION { { Exported.pages[i].ops[j] :
              j \in { n \in 1..Len(Exported.pages[i].ops) :
                        Exported.pages[i].ops[n].ann = k } } :
          i \in 1..Len(Exported.pages) }

OnSomePage(k) == annotations[k].pageIndex \in 0..(Len(pages) - 1)

\* C13: an annotation whose drawing throws never aborts the export: the
\* export still produces its document, and every annotation whose own
\* drawing does not throw is drawn on its page as it is drawn alone.
C13_AnnotationFailureIsContained ==
  ( Exporting /\ \E k \in 1..Len(annotations) : OnSomePage(k) /\ OwnDraws(k).threw )
  => /\ Exported.status = "ok"
     /\ \A k \in 1..Len(annotations) :
          ( OnSomePage(k) /\ ~ OwnDraws(k).threw )
          => DrawsFor(Exported.pages[annotations[k].pageIndex + 1], k)
               = OwnDraws(k).ops

\* C14: an exported plain rectangle has a fill or a border, never both: for a
\* rect annotation with a fill colour, every rectangle the export draws for
\* it has border width 0 and no border colour.
C14_FillSuppressesBorder ==
  Exporting
  => \A k \in 1..Len(annotations) :
       ( annotations[k].type = "rect" /\ annotations[k].fill # "" )
       => \A o \in AllDrawsFor(k) :
            o.borderWidth = 0 /\ o.borderColor = NoColor

\* C15: an ocr_text annotation is never rendered in export: the exported
\* document has no draw operation for it on any page.
C15_OcrTextNotExported ==
  Exporting
  => \A k \in 1..Len(annotations) :
       annotations[k].type = "ocr_text" => AllDrawsFor(k) = { }

\* C16: an exported highlight is one filled rectangle without border whose
\* opacity is the annotation's opacity, or 0.4 when it has none.
C16_HighlightFill ==
  ( Exporting /\ Exported.status = "ok" )
  => \A k \in 1..Len(annotations) :
       ( annotations[k].type = "highlight" /\ OnSomePage(k) )
       => LET drawn == DrawsFor(Exported.pages[annotations[k].pageIndex + 1], k)
          IN  /\ Len(drawn) = 1
              /\ drawn[1].op = "drawRectangle"
              /\ drawn[1].color # NoColor
              /\ drawn[1].opacity = IF annotations[k].opacity # 0
                                      THEN annotations[k].opacity ELSE 40
              /\ drawn[1].borderWidth = 0
              /\ drawn[1].borderColor = NoColor

\* C17: when typesetting a math annotation fails during export (the
\* typesetter throws, or its image does not load), the annotation is still
\* drawn, showing its raw source string, and the document is still written.
C17_MathFallsBackToSource ==
  ( /\ lastEvent.op = "exportPDF"
    /\ ExportEnv.katex = "throws" \/ ExportEnv.image = "error" )
  => /\ Exported.status = "ok"
     /\ \A k \in 1..Len(annotations) :
          ( annotations[k].type = "latex" /\ OnSomePage(k) )
          => \E o \in AllDrawsFor(k) :
               /\ o.op \in { "drawImage", "drawText" }
               /\ o.content = annotations[k].content
               /\ o.render \in { "html", "text" }

\* ---------------------------------------------------------------------
\* Export after page operations
\* ---------------------------------------------------------------------

\* JavaScript's %: the remainder has the sign of the dividend
JsRem(a, n) == IF a >= 0 THEN a % n ELSE 0 - ((0 - a) % n)

\* The quarter turn without the "+= 360" for a negative remainder
Rotated_NoWrap(rotation, direction) ==
  JsRem(rotation + (IF direction = "left" THEN 0 - 90 ELSE 90), 360)

\* The quarter turn without the "% 360"
Rotated_NoMod(rotation, direction) ==
  LET newRot == rotation + (IF direction = "left" THEN 0 - 90 ELSE 90)
  IN  IF newRot < 0 THEN newRot + 360 ELSE newRot

\* updatePageRotation / handleRotatePage: the rotation a quarter turn further
Rotated(rotation, direction) ==
  LET delta == IF direction = "left" THEN 0 - 90 ELSE 90
      newRot == JsRem(rotation + delta, 360)
  IN  IF newRot < 0 THEN newRot + 360 ELSE newRot

\* prev.map(...) with a quarter turn applied to every page
UpdatePageRotationList_All(ps, pageIndex, direction) ==
  [ idx \in 1..Len(ps) |->
      [ps[idx] EXCEPT !.rotation = Rotated(ps[idx].rotation, direction)] ]

\* prev.map((p, idx) => idx !== pageIndex ? p : { ...p, rotation: newRot })
UpdatePageRotationList(ps, pageIndex, direction) ==
  [ idx \in 1..Len(ps) |->
      IF idx - 1 # pageIndex
        THEN ps[idx]
        ELSE [ps[idx] EXCEPT !.rotation = Rotated(ps[idx].rotation, direction)] ]

\* History of quarter turns in a row: how many times the last steps turned
\* the same page the same way (counted up to 4), and the rotation the page
\* had before the first of them
RotationRun(op, pageIndex, direction) ==
  IF /\ lastEvent.op = op
     /\ lastEvent.args[1] = pageIndex
     /\ lastEvent.args[2] = direction
     /\ lastEvent.args[3] < 4
    THEN << lastEvent.args[3] + 1, lastEvent.args[4] >>
    ELSE << 1, IF pageIndex \in 0..(Len(pages) - 1)
                 THEN pages[pageIndex + 1].rotation ELSE 0 >>

\* updatePageRotation: only the page at pageIndex turns
updatePageRotation(pageIndex, direction) ==
  /\ pages' = UpdatePageRotationList(pages, pageIndex, direction)
  /\ UNCHANGED asyncVars
  /\ lastEvent' = Event("updatePageRotation",
                        << pageIndex, direction >>
                        \o RotationRun("updatePageRotation", pageIndex, direction))
  /\ UNCHANGED << pdfDoc, annotations, draggedItem, appVars, editorVars, clock >>

\* App.handleRotatePage: the selected page turns
handleRotatePage(direction) ==
  /\ pages' = UpdatePageRotationList(pages, selectedPageIndex, direction)
  /\ UNCHANGED asyncVars
  /\ lastEvent' = Event("App.handleRotatePage",
                        << selectedPageIndex, direction >>
                        \o RotationRun("App.handleRotatePage",
                                       selectedPageIndex, direction))
  /\ UNCHANGED << pdfDoc, annotations, draggedItem, appVars, editorVars, clock >>

\* An export with nothing to rasterize does not depend on the typesetter
CalmEnv == [katex |-> "ok", image |-> "ok"]

\* The page operations of the store, and both exports of the page list
\* (App.tsx keeps a page list of the same shape; its handleDrop,
\* handleDeletePage and handleRotatePage reach no list these do not reach)
NextPages ==
  \/ \E n \in 1..MaxPages : NoDrag /\ loadPDF(n)
  \/ \E i \in PageIndices : NoDrag /\ deletePage(i)
  \/ \E i \in PageIndices : NoDrag /\ onDragStart(i)
  \/ \E i \in PageIndices : onDragOver(i)
  \/ onDragEnd
  \/ \E i \in PageIndices, d \in { "left", "right" } :
       NoDrag /\ updatePageRotation(i, d)
  \/ \E d \in { "left", "right" } : NoDrag /\ pdfDoc # 0 /\ handleRotatePage(d)
  \/ NoDrag /\ exportPDF(CalmEnv)
  \/ NoDrag /\ handleSavePDF

SpecPages == Init /\ [][NextPages]_vars

NextOrder ==
  \/ \E n \in 1..MaxPages : loadPDF(n)
  \/ \E id \in AnnotationIds, p \in PageIndices :
       addAnnotation(StoreAnnotation(id, p))
  \/ \E id \in AnnotationIds : updateAnnotation(id, [x |-> Pct(30)])
  \/ \E id \in AnnotationIds : deleteAnnotation(id)
  \/ \E i \in PageIndices : deletePage(i)
  \/ exportPDF(CalmEnv)

SpecOrder == Init /\ [][NextOrder]_vars

\* The annotations with one field blanked, to compare lists up to that field
Without(anns, field) ==
  [ k \in 1..Len(anns) |-> [anns[k] EXCEPT ![field] = 0] ]

\* The list position of the annotation each call on the page was made for
DrawnPositions(page) == [ j \in 1..Len(page.ops) |-> page.ops[j].ann ]

\* The positions of the annotations on the page, in list order
RECURSIVE PositionsOn(_, _, _)
PositionsOn(anns, k, pageIndex) ==
  IF k > Len(anns) THEN << >>
  ELSE ( IF anns[k].pageIndex = pageIndex THEN << k >> ELSE << >> )
       \o PositionsOn(anns, k + 1, pageIndex)

\* C19: the annotation list is kept in insertion order (a new annotation goes
\* last; updateAnnotation, deleteAnnotation and deletePage keep the survivors
\* in their relative order), and an export draws, on each output page i, the
\* annotations whose pageIndex is i, in list order.
C19_DrawnInInsertionOrder ==
  [][ /\ lastEvent'.op = "addAnnotation"
         => /\ Len(annotations') = Len(annotations) + 1
            /\ SubSeq(annotations', 1, Len(annotations)) = annotations
      /\ lastEvent'.op = "updateAnnotation"
         => Without(annotations', "x") = Without(annotations, "x")
      /\ lastEvent'.op = "deleteAnnotation"
         => LET Survives(a) == a.id # lastEvent'.args[1]
            IN  annotations' = SelectSeq(annotations, Survives)
      /\ lastEvent'.op = "deletePage"
         => LET Survives(a) == a.pageIndex # lastEvent'.args[1]
            IN  Without(annotations', "pageIndex")
                  = Without(SelectSeq(annotations, Survives), "pageIndex")
      /\ lastEvent'.op = "exportPDF"
         => /\ lastEvent'.args[1].status = "ok"
            /\ \A i \in 1..Len(pages) :
                 DrawnPositions(lastEvent'.args[1].pages[i])
                   = PositionsOn(annotations, 1, i - 1)
    ]_vars

\* An export that drew two annotations on one page, the second one updated,
\* after an annotation and a page were deleted
C19_Witness ==
  /\ lastEvent.op = "exportPDF"
  /\ Len(pages) < pdfDoc
  /\ Len(annotations) = 2
  /\ annotations[1].id = 2
  /\ annotations[2].id = 1
  /\ annotations[2].x = Pct(30)
  /\ annotations[1].pageIndex = annotations[2].pageIndex
  /\ OnSomePage(1)
  /\ Len(Exported.pages[annotations[1].pageIndex + 1].ops) = 2

\* ---------------------------------------------------------------------
\* getLocalCoords over page boxes and pointer positions
\* ---------------------------------------------------------------------

\* Client coordinates of the pointer range over -MaxClient..MaxClient
MaxClient == 6

\* Bounding boxes of positive size, smaller than the pointer's range
PageBoxes ==
  [left : { 2 }, top : { 2 }, width : { 1, 3 }, height : { 1, 3 }]

PointerPositions ==
  { Point(x, y) : x \in (0 - MaxClient)..MaxClient,
                  y \in (0 - MaxClient)..MaxClient }

\* A mouse or touch event reaches getLocalCoords; without a mounted
\* container the result is the origin
pointerEvent(mounted, rect, e) ==
  /\ UNCHANGED asyncVars
  /\ lastEvent' = Event("getLocalCoords",
                        << mounted, rect, e,
                           IF mounted THEN LocalCoordsIn(rect, e)
                                      ELSE Point(0, 0) >>)
  /\ UNCHANGED << pageVars, draggedItem, appVars, editorVars, clock >>

NextCoords ==
  \E mounted \in BOOLEAN, rect \in PageBoxes, e \in PointerPositions :
    pointerEvent(mounted, rect, e)

SpecCoords == Init /\ [][NextCoords]_vars

\* C20: for a page box of positive size and every pointer position, inside
\* or outside the box, getLocalCoords returns 0 <= x <= 100 and 0 <= y <= 100.
C20_LocalCoordsInRange ==
  lastEvent.op = "getLocalCoords"
  => /\ InPage(lastEvent.args[4].x)
     /\ InPage(lastEvent.args[4].y)

\* A pointer left of and below a mounted page box: x clamps to 0, y to 100
C20_Witness ==
  /\ lastEvent.op = "getLocalCoords"
  /\ lastEvent.args[1]
  /\ lastEvent.args[3].x < lastEvent.args[2].left
  /\ lastEvent.args[3].y > lastEvent.args[2].top + lastEvent.args[2].height
  /\ lastEvent.args[4] = Point(0, Pct(100))

\* ---------------------------------------------------------------------
\* Page rotation
\* ---------------------------------------------------------------------

RotateEvents == { "updatePageRotation", "App.handleRotatePage" }

\* C21: after any sequence of quarter turns, left or right, of the pages
\* made at load, every page's rotation is 0, 90, 180 or 270.
C21_RotationNormalized ==
  \A i \in 1..Len(pages) : pages[i].rotation \in { 0, 90, 180, 270 }

\* A left turn of an unrotated page: the remainder is negative before it is
\* normalized
C21_Witness ==
  /\ lastEvent.op \in RotateEvents
  /\ lastEvent.args[2] = "left"
  /\ lastEvent.args[4] = 0
  /\ lastEvent.args[3] = 1
  /\ pages[lastEvent.args[1] + 1].rotation = 270

\* C22: four quarter turns of one page in the same direction bring its
\* rotation back to the value it had before the first of them.
C22_FourTurnsReturn ==
  ( /\ lastEvent.op \in RotateEvents
    /\ lastEvent.args[3] = 4
    /\ lastEvent.args[1] \in 0..(Len(pages) - 1) )
  => pages[lastEvent.args[1] + 1].rotation = lastEvent.args[4]

\* The fourth right turn in a row of a page loaded unrotated
C22_Witness ==
  /\ lastEvent.op = "updatePageRotation"
  /\ lastEvent.args[2] = "right"
  /\ lastEvent.args[3] = 4
  /\ lastEvent.args[4] = 0
  /\ pages[lastEvent.args[1] + 1].rotation = 0

\* Documents of up to MaxTurnPages pages are enough to have a page that is
\* turned and another that is not
MaxTurnPages == 2

\* The store's load, annotations and page rotation
NextRotate ==
  \/ \E n \in 1..MaxTurnPages : loadPDF(n)
  \/ \E id \in AnnotationIds, p \in PageIndices :
       addAnnotation(StoreAnnotation(id, p))
  \/ \E i \in PageIndices, d \in { "left", "right" } : updatePageRotation(i, d)

SpecRotate == Init /\ [][NextRotate]_vars

\* C23: rotating the page at an index changes nothing but that page's
\* rotation: the annotations, the pages' order and ids, and the rotation of
\* every other page stay as they were.
C23_RotateChangesOnlyRotation ==
  [][ \A i \in PageIndices, d \in { "left", "right" } :
        updatePageRotation(i, d)
        => /\ annotations' = annotations
           /\ Len(pages') = Len(pages)
           /\ \A j \in 1..Len(pages) :
                /\ pages'[j].id = pages[j].id
                /\ pages'[j].originalIndex = pages[j].originalIndex
                /\ j # i + 1 => pages'[j].rotation = pages[j].rotation
                /\ j = i + 1 => pages'[j].rotation # pages[j].rotation
    ]_vars

\* A page with an annotation on it was turned while another page stays at
\* its own rotation
C23_Witness ==
  /\ lastEvent.op = "updatePageRotation"
  /\ lastEvent.args[1] = 0
  /\ Len(pages) >= 2
  /\ pages[1].rotation = 270
  /\ pages[2].rotation = 90
  /\ Len(annotations) >= 1
  /\ annotations[1].pageIndex = 0

\* ---------------------------------------------------------------------
\* Selection, long press and cancellation in the Editor
\* ---------------------------------------------------------------------

\* C24: in EDIT mode a pointer-down on an annotation's body makes that
\* annotation the selection, whatever was selected before, and a
\* pointer-down on empty canvas while no tool is active clears the selection.
C24_SelectionPolicy ==
  [][ /\ \A p \in PageIndices, c \in LocalPoints, k \in 1..Len(annotations) :
           ( /\ mode = "EDIT"
             /\ handlePageMouseDown("mousedown", p, c, annotations[k].id,
                                    "move", "") )
           => selectedAnnotationId' = annotations[k].id
      /\ ( mode = "EDIT" /\ textLayerMouseDown )
         => selectedAnnotationId' = NULL
    ]_vars

\* C25: a pointer-move or a release while the long-press timer of a touch is
\* pending cancels the timer, so that no area selection is started by a
\* touch that moved or ended before the 500 ms were over.
C25_MoveCancelsLongPress ==
  [][ /\ \A p \in PageIndices, c \in LocalPoints :
           ( handlePageMouseMove(p, c) /\ longPressTimer.pending )
           => ~ longPressTimer'.pending
      /\ ( handleGlobalMouseUp /\ longPressTimer.pending )
         => ~ longPressTimer'.pending
    ]_vars

\* C27: switching the tool or the mode while a gesture is in progress leaves
\* the interaction state idle, and the store without the annotation of a
\* creation gesture that has not reached the minimum size.
C27_SwitchCancelsGesture ==
  [][ ( /\ interactionState.type # "idle"
        /\ \/ \E t \in EditTools : selectTool(t)
           \/ \E m \in { "VIEW", "EDIT" } : setMode(m) )
      => /\ interactionState'.type = "idle"
         /\ interactionState.type = "creating"
            => \A a \in WithId(annotations', interactionState.targetId) :
                 a.width >= Pct(1) /\ a.height >= Pct(1)
    ]_vars

----------------------------------------------------------------------------
(* OCR in the Editor: area selection, and the recognition that settles later *)

MaxTasks == 1

\* DB worker, SAVE_FILE: store.put(record) under keyPath 'id'
SaveFile(lib, record) == { r \in lib : r.id # record.id } \cup { record }

\* saveToDB(): the current file goes to the library, if there is one, with
\* the page and annotation lists of stateRef (those of the last render)
SaveToDB(lib, file, pgs, anns) ==
  IF file = NoFile THEN lib
  ELSE SaveFile(lib, [file EXCEPT !.pages = pgs, !.annotations = anns])

\* performOCR: the content of the annotation made from the recognised text
OcrContent(type, cleanText) ==
  IF type = "math" THEN cleanText ELSE "<p>" \o cleanText \o "</p>"

\* Date.now() as the continuation of an await reads it.  The handlers that
\* stamp an id leave the clock one millisecond later, which is when the next
\* input event can arrive at the earliest; a continuation can run right
\* behind such a handler, within the millisecond it stamped.
DateNow ==
  IF /\ clock > 0
     /\ \/ lastEvent.op = "pointerDown"
        \/ /\ lastEvent.op = "performOCR"
           /\ lastEvent.args[2] # ""
           /\ lastEvent.args[1].type # "tts"
    THEN { clock - 1, clock }
    ELSE { clock }

\* performOCR, after the awaits: recognition of the captured image settles
\* with cleanText ("" if nothing was recognised) at the time now.  A spoken
\* result adds nothing; any other becomes an annotation on the index the run
\* was started with, followed by the auto-save.
performOCR(task, cleanText, now) ==
  /\ task \in ocrTasks
  /\ ocrTasks' = ocrTasks \ { task }
  /\ IF cleanText = "" \/ task.type = "tts"
       THEN UNCHANGED << annotations, clock, library >>
       ELSE /\ annotations' = AddAnnotationList(annotations,
                 Merge(Annotation(now, task.pageIdx,
                                  IF task.type = "math" THEN "latex" ELSE "text",
                                  task.rect.x, task.rect.y,
                                  task.rect.w, task.rect.h, << >>),
                       [content |-> OcrContent(task.type, cleanText),
                        fill |-> "transparent"]))
            /\ clock' = now + 1
            /\ library' = SaveToDB(library, currentFile, pages, annotations)
  /\ lastEvent' = Event("performOCR", << task, cleanText, now >>)
  /\ UNCHANGED << pdfDoc, pages, draggedItem, appVars, editorVars,
                  renderVars, backVars, currentFile, pdfFile >>

\* Context menu of a view selection: "OCR selection"
handleOCRSelection ==
  /\ pointerHeld = "no"
  /\ contextMenu /\ viewSelection.visible
  /\ contextMenu' = FALSE
  /\ ocrTasks' = ocrTasks \cup
        captureAreaAndOCR(viewSelection.pageIndex, viewSelection.start,
                          viewSelection.end, "text")
  /\ viewSelection' = NoSelection
  /\ lastEvent' = Event("handleOCRSelection", << >>)
  /\ UNCHANGED << pageVars, draggedItem, appVars, mode, activeTool,
                  selectedAnnotationId, interactionState, currentPath,
                  longPressTimer, pointerHeld, clock, renderVars, backVars, fileVars >>

\* Client positions of the OCR gestures: two corners of the page
OcrPoints == { Point(10, 10), Point(110, 110) }

RecognisedTexts == { "", "E=mc2" }

OcrModes == { "VIEW", "OCR", "PAGES" }

InEditor == pdfDoc > 0 /\ mode # "PAGES" /\ NoDrag
InPageManager == pdfDoc > 0 /\ mode = "PAGES"

\* OCR mode and VIEW mode of the Editor, with the PageManager one click away,
\* while recognitions started earlier settle at any time
NextOcr ==
  \/ pdfDoc = 0 /\ loadPDF(2)
  \/ \E m \in OcrModes : pdfDoc > 0 /\ NoDrag /\ setMode(m)
  \/ \E t \in { "ocr_area", "ocr_math", "ocr_full" } : InEditor /\ selectTool(t)
  \/ \E p \in PageIndices, e \in OcrPoints :
       /\ InEditor
       /\ activeTool # ""
       /\ clock < MaxClock
       /\ Cardinality(ocrTasks) < MaxTasks
       /\ handlePageMouseDown("mousedown", p, getLocalCoords(e), NULL, "", "")
  \/ \E p \in PageIndices, e \in OcrPoints :
       InEditor /\ handlePageMouseMove(p, getLocalCoords(e))
  \/ /\ InEditor
     /\ Cardinality(ocrTasks) < MaxTasks
     /\ handleGlobalMouseUp
  \/ /\ InEditor
     /\ Cardinality(ocrTasks) < MaxTasks
     /\ handleOCRSelection
  \/ InEditor /\ cancelViewSelection
  \/ \E i \in PageIndices : InPageManager /\ NoDrag /\ deletePage(i)
  \/ \E i \in PageIndices : InPageManager /\ NoDrag /\ onDragStart(i)
  \/ \E i \in PageIndices : InPageManager /\ onDragOver(i)
  \/ InPageManager /\ onDragEnd
  \/ \E task \in ocrTasks, text \in RecognisedTexts, now \in DateNow :
       /\ Len(annotations) < MaxAnns
       /\ clock < MaxClock
       /\ performOCR(task, text, now)

SpecOcr == Init /\ [][NextOcr]_vars

\* A pointer-down that starts an area selection with one of the OCR tools
StartsAreaSelection(p, c) ==
  /\ mode = "OCR"
  /\ activeTool \in { "ocr_area", "ocr_math", "ocr_tts" }
  /\ handlePageMouseDown("mousedown", p, c, NULL, "", "")

\* C26: the pointer-down, the pointer-moves and the pointer-up of an area
\* selection leave the annotation list as it was, and after the pointer-up
\* the interaction state holds no marquee (it is not selecting_area).
C26_MarqueeIsTransient ==
  [][ /\ \A p \in PageIndices, c \in LocalPoints :
           /\ StartsAreaSelection(p, c) => annotations' = annotations
           /\ ( /\ interactionState.type = "selecting_area"
                /\ handlePageMouseMove(p, c) )
              => annotations' = annotations
      /\ ( interactionState.type = "selecting_area" /\ handleGlobalMouseUp )
         => /\ annotations' = annotations
            /\ interactionState'.type # "selecting_area"
    ]_vars

\* C29: a recognition that settles never adds an annotation whose pageIndex
\* is outside the page list or names another page than the one scanned.
C29_NoStaleOcrResult ==
  [][ \A task \in ocrTasks, text \in RecognisedTexts, now \in DateNow :
        ( performOCR(task, text, now) /\ Len(annotations') > Len(annotations) )
        => LET a == annotations'[Len(annotations')]
           IN  /\ a.pageIndex \in 0..(Len(pages') - 1)
               /\ PageIdAt(pages', a.pageIndex) = task.scanned
    ]_vars

----------------------------------------------------------------------------
(* PDFPage: the render effect and its cancellation *)

MaxRenders == 3

\* Source pages whose getTextContent() has no items
EmptyPages == { 2 }

\* render() as the effect starts it: it awaits pdfDoc.getPage first
RenderRun(pageNumber, onEmptyPageFound) ==
  [pageNumber |-> pageNumber, onEmptyPageFound |-> onEmptyPageFound,
   phase |-> "getPage", isCancelled |-> FALSE]

\* The effect's cleanup: isCancelled = true in the closure of the run that
\* the effect started (and renderTask.cancel(), whose rejection ends the run
\* in the catch block)
Cleanup(runs, page) ==
  IF page.effect = 0 THEN runs
  ELSE [runs EXCEPT ![page.effect].isCancelled = TRUE]

\* A run of the main render effect for the props and state in page: without
\* visibility it only resets isRendered; otherwise it starts render()
RunEffect(runs, page) ==
  IF ~ page.isVisible
    THEN [page |-> [page EXCEPT !.isRendered = FALSE, !.effect = 0],
          runs |-> runs]
    ELSE [page |-> [page EXCEPT !.effect = Len(runs) + 1],
          runs |-> Append(runs, RenderRun(page.pageNumber,
                                          page.onEmptyPageFound))]

\* The component re-renders with new props or state: cleanup of the previous
\* effect run, then the effect again
Rerender(page) ==
  /\ pdfPage' = RunEffect(Cleanup(renders, pdfPage), page).page
  /\ renders' = RunEffect(Cleanup(renders, pdfPage), page).runs

\* The Editor mounts the PDFPage of a page; isVisible starts false
mountPDFPage(pageNumber, onEmptyPageFound) ==
  /\ ~ pdfPage.mounted
  /\ Rerender([NoPDFPage EXCEPT !.mounted = TRUE,
                                !.pageNumber = pageNumber,
                                !.onEmptyPageFound = onEmptyPageFound])
  /\ lastEvent' = Event("mountPDFPage", << pageNumber >>)
  /\ UNCHANGED << pageVars, draggedItem, appVars, editorVars, clock,
                  ocrTasks, fileVars, backVars >>

\* IntersectionObserver callback: setIsVisible(entry.isIntersecting)
observe(isIntersecting) ==
  /\ pdfPage.mounted
  /\ pdfPage.isVisible # isIntersecting
  /\ Rerender([pdfPage EXCEPT !.isVisible = isIntersecting])
  /\ lastEvent' = Event("observe", << isIntersecting >>)
  /\ UNCHANGED << pageVars, draggedItem, appVars, editorVars, clock,
                  ocrTasks, fileVars, backVars >>

\* A render input changes (pageNumber, rotation or scale)
changeRenderInputs(pageNumber) ==
  /\ pdfPage.mounted
  /\ Rerender([pdfPage EXCEPT !.pageNumber = pageNumber])
  /\ lastEvent' = Event("changeRenderInputs", << pageNumber >>)
  /\ UNCHANGED << pageVars, draggedItem, appVars, editorVars, clock,
                  ocrTasks, fileVars, backVars >>

\* The PDFPage is unmounted: cleanup only
unmountPDFPage ==
  /\ pdfPage.mounted
  /\ renders' = Cleanup(renders, pdfPage)
  /\ pdfPage' = [pdfPage EXCEPT !.mounted = FALSE, !.effect = 0]
  /\ lastEvent' = Event("unmountPDFPage", << >>)
  /\ UNCHANGED << pageVars, draggedItem, appVars, editorVars, clock,
                  ocrTasks, fileVars, backVars >>

\* render(): the promise run r awaits settles and the run goes on to its
\* next await or to its end.  The event records whether the run called
\* onEmptyPageFound in this step.
renderStep(r) ==
  LET run == renders[r]
      callsBack == /\ run.phase = "getTextContent"
                   /\ run.pageNumber \in EmptyPages
                   /\ run.onEmptyPageFound
  IN  /\ run.phase # "done"
      /\ renders' =
           [renders EXCEPT ![r].phase =
              IF run.isCancelled THEN "done"
              ELSE IF run.phase = "getPage" THEN "render"
              ELSE IF run.phase = "render" THEN "getTextContent"
              ELSE "done"]
      /\ pdfPage' =
           IF run.phase = "getTextContent" /\ ~ run.isCancelled
             THEN [pdfPage EXCEPT !.isRendered = TRUE, !.textLayer = r]
             ELSE pdfPage
      /\ lastEvent' = Event("render", << r, run.phase, callsBack >>)
      /\ UNCHANGED << pageVars, draggedItem, appVars, editorVars, clock,
                      ocrTasks, fileVars, backVars >>

NextRender ==
  \/ pdfDoc = 0 /\ loadPDF(2)
  \/ \E n \in 1..pdfDoc, h \in BOOLEAN :
       Len(renders) < MaxRenders /\ mountPDFPage(n, h)
  \/ \E v \in BOOLEAN : Len(renders) < MaxRenders /\ observe(v)
  \/ \E n \in 1..pdfDoc : Len(renders) < MaxRenders /\ changeRenderInputs(n)
  \/ unmountPDFPage
  \/ \E r \in 1..Len(renders) : renderStep(r)

SpecRender == Init /\ [][NextRender]_vars

----------------------------------------------------------------------------
(* Opening a document: PDF files, .epdf projects, library records *)

\* ProjectHandler.importProject: the record of a project file that unpacks
ImportProject(file, now) ==
  FileRecord(FileId("imported", now), file.name, file.data, file.pages,
             file.annotations)

\* usePDFStore.loadPDF(data, name, savedState), savedState a record or
\* NoFile: what the store holds afterwards.  getDocument rejects malformed
\* bytes before anything is set.
LoadPDF(data, name, savedState, now) ==
  IF data.pdf # "ok"
    THEN [pdfDoc |-> pdfDoc, pages |-> pages, annotations |-> annotations,
          currentFile |-> currentFile]
    ELSE LET loadedPages == IF savedState = NoFile
                              THEN FreshPages(data.numPages, now)
                              ELSE savedState.pages
             loadedAnnotations == IF savedState = NoFile THEN << >>
                                  ELSE savedState.annotations
         IN  [pdfDoc |-> data.numPages, pages |-> loadedPages,
              annotations |-> loadedAnnotations,
              currentFile |->
                FileRecord(IF savedState = NoFile THEN FileId("pdf", now)
                                                  ELSE savedState.id,
                           name, data, loadedPages, loadedAnnotations)]

\* AppContent.handleFileSelect: TopBar upload or dashboard file
handleFileSelect(file) ==
  LET isProject == file.kind = "epdf"
      imported == isProject /\ file.container = "ok"
      projectRecord == ImportProject(file, clock)
      store == IF isProject
                 THEN IF imported
                        THEN LoadPDF(projectRecord.file, projectRecord.name,
                                     projectRecord, clock)
                        ELSE LoadPDF(MalformedData, "", NoFile, clock)
                 ELSE LoadPDF(file.data, file.name, NoFile, clock)
  IN  /\ pdfDoc' = store.pdfDoc
      /\ pages' = store.pages
      /\ annotations' = store.annotations
      /\ currentFile' = store.currentFile
      /\ library' = IF imported THEN SaveFile(library, projectRecord)
                                ELSE library
      /\ lastEvent' = Event("handleFileSelect", << file >>)
      /\ UNCHANGED << draggedItem, appVars, editorVars, clock, ocrTasks,
                      renderVars, backVars, pdfFile >>

\* AppContent.handleRecentSelect: a record of the library is opened
handleRecentSelect(fileRecord) ==
  LET store == LoadPDF(fileRecord.file, fileRecord.name, fileRecord, clock)
  IN  /\ fileRecord \in library
      /\ pdfDoc' = store.pdfDoc
      /\ pages' = store.pages
      /\ annotations' = store.annotations
      /\ currentFile' = store.currentFile
      /\ lastEvent' = Event("handleRecentSelect", << fileRecord >>)
      /\ UNCHANGED << draggedItem, appVars, editorVars, clock, ocrTasks,
                      renderVars, backVars, library, pdfFile >>

\* usePDFStore.closeDocument: save, then clear
closeDocument ==
  /\ library' = SaveToDB(library, currentFile, pages, annotations)
  /\ pdfDoc' = 0
  /\ currentFile' = NoFile
  /\ pages' = << >>
  /\ annotations' = << >>
  /\ lastEvent' = Event("closeDocument", << >>)
  /\ UNCHANGED << draggedItem, appVars, editorVars, clock, ocrTasks,
                  renderVars, backVars, pdfFile >>

\* App.handleFileUpload with the loadPDF its reader callback calls: the
\* picked file is stored first, then the document is loaded from its bytes
handleFileUpload(file) ==
  /\ pdfFile' = file
  /\ IF file.data.pdf = "ok"
       THEN /\ pdfDoc' = file.data.numPages
            /\ pages' = FreshPages(file.data.numPages, clock)
            /\ selectedPageIndex' = 0
       ELSE UNCHANGED << pdfDoc, pages, selectedPageIndex >>
  /\ lastEvent' = Event("App.handleFileUpload", << file >>)
  /\ UNCHANGED << annotations, draggedItem, draggedPageIndex, dragging,
                  editorVars, clock, ocrTasks, renderVars, backVars, currentFile,
                  library >>

\* Pages and annotations packed in the project files
ProjectPages == FreshPages(2, 0)
ProjectAnnotations == << StoreAnnotation(1, 1) >>

PdfFiles ==
  { PickedFile("a.pdf", "pdf", "none", d, << >>, << >>) :
      d \in { PdfData(1), PdfData(2), MalformedData } }

ProjectFiles ==
  { PickedFile("b.pdf", "epdf", c, d, ProjectPages, ProjectAnnotations) :
      c \in { "ok", "corrupt" }, d \in { PdfData(2), MalformedData } }

PickedFiles == PdfFiles \cup ProjectFiles

\* The open fails: the bytes are no PDF, or the project does not unpack
FailsToOpen(file) ==
  \/ file.data.pdf # "ok"
  \/ file.kind = "epdf" /\ file.container # "ok"

\* The hook-based application and App.tsx are two programs: a run belongs
\* to the one whose state it has touched
HookApp == pdfFile = NoUpload
MonolithApp == currentFile = NoFile /\ library = { }

NextOpen ==
  \/ \E f \in PickedFiles : HookApp /\ handleFileSelect(f)
  \/ \E r \in library : HookApp /\ pdfDoc = 0 /\ handleRecentSelect(r)
  \/ HookApp /\ pdfDoc > 0 /\ closeDocument
  \/ \E id \in AnnotationIds, p \in PageIndices :
       pdfDoc > 0 /\ addAnnotation(StoreAnnotation(id, p))
  \/ \E f \in PdfFiles : MonolithApp /\ handleFileUpload(f)

SpecOpen == Init /\ [][NextOpen]_vars

\* C30: an open that fails leaves the open document, the page list, the
\* annotation list and the current file as they were and writes nothing to
\* the library.
C30_FailedOpenChangesNothing ==
  [][ \A f \in PickedFiles :
        ( FailsToOpen(f) /\ ( handleFileSelect(f) \/ handleFileUpload(f) ) )
        => /\ UNCHANGED << pdfDoc, pages, annotations >>
           /\ UNCHANGED << currentFile, pdfFile >>
           /\ UNCHANGED library
    ]_vars

----------------------------------------------------------------------------
(* Annotation ids: the tools of the EDIT toolbar and the OCR results        *)

IdTools == { "rect", "freehand", "ocr_full" }

\* The Editor in EDIT and OCR mode: boxes and strokes are made by hand while
\* a recognition started with "scan page" settles at any time
NextIds ==
  \/ pdfDoc = 0 /\ loadPDF(1)
  \/ \E m \in { "EDIT", "OCR" } : pdfDoc > 0 /\ setMode(m)
  \/ \E t \in IdTools : pdfDoc > 0 /\ selectTool(t)
  \/ \E p \in PageIndices, e \in OcrPoints :
       /\ InEditor
       /\ mode # "VIEW"
       /\ activeTool # ""
       /\ Len(annotations) < MaxAnns
       /\ clock + (IF activeTool = "freehand" THEN 2 ELSE 1) <= MaxClock
       /\ activeTool = "ocr_full" => Cardinality(ocrTasks) < MaxTasks
       /\ handlePageMouseDown("mousedown", p, getLocalCoords(e), NULL, "", "")
  \/ \E p \in PageIndices, e \in OcrPoints, k \in 1..Len(annotations) :
       /\ InEditor
       /\ mode # "VIEW"
       /\ clock < MaxClock
       /\ OnAnnotation(annotations[k], p, getLocalCoords(e))
       /\ handlePageMouseDown("mousedown", p, getLocalCoords(e),
                              annotations[k].id, "move", "")
  \/ \E p \in PageIndices, e \in OcrPoints :
       /\ InEditor
       /\ Len(currentPath) < MaxPath
       /\ handlePageMouseMove(p, getLocalCoords(e))
  \/ InEditor /\ handleGlobalMouseUp
  \/ InEditor /\ deleteSelected
  \/ \E task \in ocrTasks, text \in RecognisedTexts, now \in DateNow :
       /\ Len(annotations) < MaxAnns
       /\ clock < MaxClock
       /\ performOCR(task, text, now)

SpecIds == Init /\ [][NextIds]_vars

\* C31: after every step the ids of the annotations are pairwise distinct,
\* and a step that removes no annotation leaves every annotation it found
\* with the id it had.
C31_IdsUniqueAndImmutable ==
  [][ /\ \A j, k \in 1..Len(annotations') :
           j # k => annotations'[j].id # annotations'[k].id
      /\ Len(annotations') >= Len(annotations)
         => \A k \in 1..Len(annotations) :
              annotations'[k].id = annotations[k].id
    ]_vars

\* C31, second half alone: no step changes the id of an annotation
C31_IdsImmutable ==
  [][ Len(annotations') >= Len(annotations)
      => \A k \in 1..Len(annotations) : annotations'[k].id = annotations[k].id
    ]_vars

----------------------------------------------------------------------------
(* The store's annotation API called with an id it does not hold            *)

\* C32: updateAnnotation and deleteAnnotation with an id that no annotation
\* of the store carries leave the annotation list as it was, records and
\* order.
C32_UnknownIdIsNoOp ==
  [][ \A id \in AnnotationIds :
        ( /\ ~ HasAnnotation(annotations, id)
          /\ \/ updateAnnotation(id, [x |-> Pct(30)])
             \/ deleteAnnotation(id) )
        => annotations' = annotations
    ]_vars

\* An update has just been asked for an id that the non-empty store does not
\* hold (an update never removes the id it names)
C32_Witness ==
  /\ lastEvent.op = "updateAnnotation"
  /\ Len(annotations) > 0
  /\ ~ HasAnnotation(annotations, lastEvent.args[1])

----------------------------------------------------------------------------
(* Geometry of the move and resize gestures                                 *)

\* A move or resize gesture is under way on page p
Reshaping(p) ==
  /\ pointerHeld = "gesture"
  /\ interactionState.type \in { "moving", "resizing" }
  /\ interactionState.pageIndex = p

\* C33: every pointer-move of a move or resize gesture, and the release that
\* ends it, leave the x and y of the gesture's annotation within [0,100].
C33_MoveResizeStaysOnPage ==
  [][ \A p \in PageIndices :
        ( /\ Reshaping(p)
          /\ \/ \E B \in LocalPoints : handlePageMouseMove(p, B)
             \/ handleGlobalMouseUp )
        => \A a \in WithId(annotations', interactionState.targetId) :
             InPage(a.x) /\ InPage(a.y)
    ]_vars

\* The gesture state a tool of the EDIT toolbar stands for
GestureOf(tool) == IF tool = "freehand" THEN "drawing" ELSE "creating"

\* C35: from idle, a pointer-down on empty canvas of page p at c with a
\* drawing or box tool active enters that tool's gesture state on p and
\* appends one new annotation on p to the store, in the same step.
C35_PointerDownInserts ==
  [][ \A p \in PageIndices, c \in LocalPoints :
        ( /\ mode = "EDIT"
          /\ activeTool \in EditTools
          /\ interactionState.type = "idle"
          /\ handlePageMouseDown("mousedown", p, c, NULL, "", "") )
        => /\ interactionState'.type = GestureOf(activeTool)
           /\ interactionState'.pageIndex = p
           /\ Len(annotations') = Len(annotations) + 1
           /\ SubSeq(annotations', 1, Len(annotations)) = annotations
           /\ annotations'[Len(annotations')].pageIndex = p
    ]_vars

----------------------------------------------------------------------------
(* App.tsx: the gestures of the App component's own editor                  *)

\* useState initial value and the reset of handleGlobalMouseUp
App_IdleState ==
  [IdleState EXCEPT !.startCoords = Point(0, 0), !.currentCoords = Point(0, 0)]

\* SideBar: setMode wrapper
App_setMode(m) ==
  /\ pointerHeld = "no"
  /\ mode # m
  /\ mode' = m
  /\ selectedAnnotationId' = NULL
  /\ activeTool' = ""
  /\ UNCHANGED asyncVars
  /\ lastEvent' = Event("App.setMode", << m >>)
  /\ UNCHANGED << pageVars, draggedItem, appVars, interactionState,
                  currentPath, viewSelection, contextMenu, longPressTimer,
                  pointerHeld, clock >>

\* Floating toolbar, shown in EDIT mode while nothing is selected
App_selectTool(t) ==
  /\ pointerHeld = "no"
  /\ mode = "EDIT"
  /\ selectedAnnotationId = NULL
  /\ activeTool' = t
  /\ selectedAnnotationId' = NULL
  /\ UNCHANGED asyncVars
  /\ lastEvent' = Event("App.selectTool", << t >>)
  /\ UNCHANGED << pageVars, draggedItem, appVars, mode, interactionState,
                  currentPath, viewSelection, contextMenu, longPressTimer,
                  pointerHeld, clock >>

\* App.handlePageMouseDown
App_handlePageMouseDown(pageIndex, coords, targetId, type, handle) ==
  /\ pointerHeld = "no"
  /\ clock' = clock + 1
  /\ UNCHANGED asyncVars
  /\ lastEvent' = Event("App.pointerDown", << >>)
  /\ UNCHANGED << pdfDoc, pages, draggedItem, appVars, mode, activeTool,
                  viewSelection, contextMenu, longPressTimer >>
  /\ IF mode # "EDIT" THEN
       /\ pointerHeld' = "other"
       /\ UNCHANGED << annotations, selectedAnnotationId, interactionState,
                       currentPath >>
     ELSE IF targetId # NULL /\ type # "" THEN
       /\ selectedAnnotationId' = targetId
       /\ interactionState' =
            IF HasAnnotation(annotations, targetId)
              THEN LET ann == FindAnnotation(annotations, targetId)
                   IN  [IdleState EXCEPT
                          !.type = IF type = "move" THEN "moving" ELSE "resizing",
                          !.pageIndex = pageIndex,
                          !.startCoords = coords,
                          !.currentCoords = coords,
                          !.targetId = targetId,
                          !.handle = handle,
                          !.initialRect = Rect(ann.x, ann.y, ann.width, ann.height)]
              ELSE interactionState
       /\ pointerHeld' = IF HasAnnotation(annotations, targetId)
                            THEN "gesture" ELSE "other"
       /\ UNCHANGED << annotations, currentPath >>
     ELSE IF activeTool # "" /\ targetId = NULL THEN
       IF activeTool = "freehand" THEN
         /\ interactionState' = [IdleState EXCEPT !.type = "drawing",
                                                  !.pageIndex = pageIndex,
                                                  !.startCoords = coords,
                                                  !.currentCoords = coords]
         /\ currentPath' = << coords >>
         /\ pointerHeld' = "gesture"
         /\ UNCHANGED << annotations, selectedAnnotationId >>
       ELSE
         LET newId == clock
             newAnn == Merge(Annotation(newId, pageIndex, activeTool,
                                       coords.x, coords.y, 0, 0, << >>),
                            [color |-> IF activeTool = "text" THEN "#000000"
                                                              ELSE "#D0BCFF",
                             strokeWidth |-> 2, opacity |-> 100])
         IN  /\ annotations' = AddAnnotationList(annotations, newAnn)
             /\ selectedAnnotationId' = newId
             /\ interactionState' = [IdleState EXCEPT !.type = "creating",
                                                      !.pageIndex = pageIndex,
                                                      !.startCoords = coords,
                                                      !.currentCoords = coords,
                                                      !.targetId = newId]
             /\ pointerHeld' = "gesture"
             /\ UNCHANGED currentPath
     ELSE
       /\ selectedAnnotationId' = NULL
       /\ pointerHeld' = "other"
       /\ UNCHANGED << annotations, interactionState, currentPath >>

\* App.handlePageMouseMove, resizing: the size is clamped at 1 (percent),
\* the position is not
App_ResizedRect(ir, handle, dx, dy) ==
  Rect(IF handle \in { "nw", "sw" } THEN ir.x + dx ELSE ir.x,
       IF handle \in { "nw", "ne" } THEN ir.y + dy ELSE ir.y,
       IF handle \in { "nw", "sw" } THEN Max(Pct(1), ir.w - dx)
         ELSE IF handle \in { "ne", "se" } THEN Max(Pct(1), ir.w + dx)
         ELSE ir.w,
       IF handle \in { "nw", "ne" } THEN Max(Pct(1), ir.h - dy)
         ELSE IF handle \in { "sw", "se" } THEN Max(Pct(1), ir.h + dy)
         ELSE ir.h)

\* App.handlePageMouseMove
App_handlePageMouseMove(pageIndex, coords) ==
  /\ UNCHANGED asyncVars
  /\ lastEvent' = Event("App.pointerMove", << >>)
  /\ UNCHANGED << pdfDoc, pages, draggedItem, appVars, mode, activeTool,
                  selectedAnnotationId, interactionState, viewSelection,
                  contextMenu, longPressTimer, pointerHeld, clock >>
  /\ IF \/ interactionState.type = "idle"
        \/ interactionState.pageIndex # pageIndex THEN
       UNCHANGED << annotations, currentPath >>
     ELSE IF interactionState.type = "drawing" THEN
       /\ currentPath' = Append(currentPath, coords)
       /\ UNCHANGED annotations
     ELSE IF interactionState.type = "creating" THEN
       LET start == interactionState.startCoords
       IN  /\ annotations' = UpdateAnnotationList(annotations,
                 interactionState.targetId,
                 [x |-> Min(coords.x, start.x), y |-> Min(coords.y, start.y),
                  width |-> Abs(coords.x - start.x),
                  height |-> Abs(coords.y - start.y)])
           /\ UNCHANGED currentPath
     ELSE IF interactionState.type = "moving" THEN
       LET dx == coords.x - interactionState.startCoords.x
           dy == coords.y - interactionState.startCoords.y
       IN  /\ annotations' = UpdateAnnotationList(annotations,
                 interactionState.targetId,
                 [x |-> interactionState.initialRect.x + dx,
                  y |-> interactionState.initialRect.y + dy])
           /\ UNCHANGED currentPath
     ELSE
       LET dx == coords.x - interactionState.startCoords.x
           dy == coords.y - interactionState.startCoords.y
           r == App_ResizedRect(interactionState.initialRect,
                                interactionState.handle, dx, dy)
       IN  /\ annotations' = UpdateAnnotationList(annotations,
                 interactionState.targetId,
                 [x |-> r.x, y |-> r.y, width |-> r.w, height |-> r.h])
           /\ UNCHANGED currentPath

\* App.handleGlobalMouseUp: a box left without width or height gets a
\* default size
App_handleGlobalMouseUp ==
  /\ UNCHANGED asyncVars
  /\ lastEvent' = Event("App.pointerUp", << >>)
  /\ pointerHeld' = "no"
  /\ interactionState' = App_IdleState
  /\ UNCHANGED << pdfDoc, pages, draggedItem, appVars, mode, viewSelection,
                  contextMenu, longPressTimer >>
  /\ IF interactionState.type = "drawing" THEN
       /\ currentPath' = << >>
       /\ IF Len(currentPath) > 2
            THEN /\ annotations' = AddAnnotationList(annotations,
                        Merge(Annotation(clock, interactionState.pageIndex,
                                        "freehand", 0, 0, 0, 0, currentPath),
                             [strokeWidth |-> 4, opacity |-> 100]))
                 /\ selectedAnnotationId' = clock
                 /\ clock' = clock + 1
            ELSE UNCHANGED << annotations, selectedAnnotationId, clock >>
       /\ UNCHANGED activeTool
     ELSE IF interactionState.type = "creating" THEN
       /\ annotations' =
            IF HasAnnotation(annotations, interactionState.targetId)
              THEN LET a == FindAnnotation(annotations, interactionState.targetId)
                   IN  IF a.width = 0 \/ a.height = 0
                         THEN UpdateAnnotationList(annotations,
                                interactionState.targetId,
                                IF a.type = "text"
                                  THEN [width |-> Pct(20), height |-> Pct(5)]
                                  ELSE [width |-> Pct(15), height |-> Pct(5)])
                         ELSE annotations
              ELSE annotations
       /\ activeTool' = ""
       /\ UNCHANGED << selectedAnnotationId, currentPath, clock >>
     ELSE UNCHANGED << annotations, selectedAnnotationId, currentPath, clock,
                       activeTool >>

\* Properties panel of App.tsx: delete button of the selected annotation
App_deleteSelected ==
  /\ pointerHeld = "no"
  /\ mode = "EDIT"
  /\ HasAnnotation(annotations, selectedAnnotationId)
  /\ annotations' = DeleteAnnotationList(annotations, selectedAnnotationId)
  /\ selectedAnnotationId' = NULL
  /\ UNCHANGED asyncVars
  /\ lastEvent' = Event("App.deleteSelected", << >>)
  /\ UNCHANGED << pdfDoc, pages, draggedItem, appVars, mode, activeTool,
                  interactionState, currentPath, viewSelection, contextMenu,
                  longPressTimer, clock, pointerHeld >>

App_Tools == { "rect", "text", "freehand" }

OnPagePoints == { c \in ClientPoints : OverPage(c) }

\* Events the browser can deliver to the editor of App.tsx
NextAppEdit ==
  \/ pdfDoc = 0 /\ App_loadPDF(2)
  \/ \E m \in { "VIEW", "EDIT" } : pdfDoc > 0 /\ App_setMode(m)
  \/ \E t \in App_Tools : pdfDoc > 0 /\ App_selectTool(t)
  \/ pdfDoc > 0 /\ App_deleteSelected
  \/ \E p \in PageIndices, e \in OnPagePoints :
       /\ pdfDoc > 0
       /\ activeTool # ""
       /\ Len(annotations) < MaxAnns
       /\ clock + (IF activeTool = "freehand" THEN 2 ELSE 1) <= MaxClock
       /\ App_handlePageMouseDown(p, getLocalCoords(e), NULL, "", "")
  \/ \E p \in PageIndices, e \in OnPagePoints, k \in 1..Len(annotations) :
       /\ pdfDoc > 0
       /\ clock < MaxClock
       /\ OnAnnotation(annotations[k], p, getLocalCoords(e))
       /\ App_handlePageMouseDown(p, getLocalCoords(e),
                                  annotations[k].id, "move", "")
  \/ \E p \in PageIndices, e \in OnPagePoints, k \in 1..Len(annotations),
        h \in Handles :
       /\ pdfDoc > 0
       /\ clock < MaxClock
       /\ OnHandle(annotations[k], h, p, getLocalCoords(e))
       /\ App_handlePageMouseDown(p, getLocalCoords(e),
                                  annotations[k].id, "resize", h)
  \/ \E p \in PageIndices, e \in ClientPoints :
       /\ pdfDoc > 0
       /\ Len(currentPath) < MaxPath
       /\ App_handlePageMouseMove(p, getLocalCoords(e))
  \/ pdfDoc > 0 /\ App_handleGlobalMouseUp

SpecAppEdit == Init /\ [][NextAppEdit]_vars

\* C36: every pointer-move of a resize gesture leaves the corner opposite to
\* the handle where it was at pointer-down: with the south-east handle x and
\* y are those of the start rectangle, with the north-west handle x + width
\* and y + height are those of the start rectangle.
C36_OppositeCornerFixed ==
  [][ \A p \in PageIndices, c \in LocalPoints :
        ( /\ pointerHeld = "gesture"
          /\ interactionState.type = "resizing"
          /\ interactionState.pageIndex = p
          /\ \/ handlePageMouseMove(p, c)
             \/ App_handlePageMouseMove(p, c) )
        => \A a \in WithId(annotations', interactionState.targetId) :
             LET ir == interactionState.initialRect
             IN  /\ interactionState.handle = "se"
                    => a.x = ir.x /\ a.y = ir.y
                 /\ interactionState.handle = "nw"
                    => /\ a.x + a.width = ir.x + ir.w
                       /\ a.y + a.height = ir.y + ir.h
    ]_vars

\* C35 for the rect tool alone
C35_RectInsertsAtPointerDown ==
  [][ \A p \in PageIndices, c \in LocalPoints :
        ( /\ mode = "EDIT"
          /\ activeTool = "rect"
          /\ interactionState.type = "idle"
          /\ handlePageMouseDown("mousedown", p, c, NULL, "", "") )
        => /\ interactionState'.type = "creating"
           /\ interactionState'.pageIndex = p
           /\ Len(annotations') = Len(annotations) + 1
           /\ SubSeq(annotations', 1, Len(annotations)) = annotations
           /\ annotations'[Len(annotations')].pageIndex = p
    ]_vars

----------------------------------------------------------------------------
(* The Editor's selection                                                   *)

\* C38: the selected annotation id is null or the id of an annotation in
\* the store, in every state reached by gestures, tool creations, the
\* delete button and recognitions that settle.
C38_SelectionNamesAnnotation ==
  selectedAnnotationId = NULL \/ HasAnnotation(annotations, selectedAnnotationId)

\* A recognition has just added an annotation while another is selected
C38_Witness ==
  /\ lastEvent.op = "performOCR"
  /\ Len(annotations) = 2
  /\ selectedAnnotationId # NULL
  /\ annotations[2].id # selectedAnnotationId

----------------------------------------------------------------------------
(* PageManager: drag events handled with the draggedItem of the last render *)

\* PageManager.onDragStart, the handler alone: the state update waits for
\* the next render
onDragStart_Handler(index) ==
  /\ draggedItemUpdate' = [pending |-> TRUE, value |-> index]
  /\ pickedPage' = PageIdAt(pages, index)
  /\ lastEvent' = Event("dragstart", << index >>)
  /\ UNCHANGED << pageVars, draggedItem, appVars, editorVars, clock,
                  ocrTasks, renderVars, fileVars, exportRun, proxyVars >>

\* PageManager.onDragOver, the handler alone: draggedItem is the value the
\* last render closed over, movePage is applied to the current page list
onDragOver_Handler(index) ==
  /\ IF draggedItem = NULL \/ draggedItem = index
       THEN UNCHANGED << pages, draggedItemUpdate >>
       ELSE /\ pages' = MovePagePages(pages, draggedItem, index)
            /\ draggedItemUpdate' = [pending |-> TRUE, value |-> index]
  /\ lastEvent' = Event("dragover", << index >>)
  /\ UNCHANGED << pdfDoc, annotations, draggedItem, pickedPage, appVars,
                  editorVars, clock, ocrTasks, renderVars, fileVars,
                  exportRun, proxyVars >>

\* PageManager.onDragEnd, the handler alone
onDragEnd_Handler ==
  /\ draggedItemUpdate' = [pending |-> TRUE, value |-> NULL]
  /\ pickedPage' = NoPage
  /\ lastEvent' = Event("dragend", << >>)
  /\ UNCHANGED << pageVars, draggedItem, appVars, editorVars, clock,
                  ocrTasks, renderVars, fileVars, exportRun, proxyVars >>

\* React renders PageManager: the handlers of the new render see the
\* draggedItem last set
PageManager_render ==
  /\ draggedItemUpdate.pending
  /\ draggedItem' = draggedItemUpdate.value
  /\ draggedItemUpdate' = NoUpdate
  /\ lastEvent' = Event("render", << >>)
  /\ UNCHANGED << pageVars, pickedPage, appVars, editorVars, clock,
                  ocrTasks, renderVars, fileVars, exportRun, proxyVars >>

\* A drag in PageManager: the browser delivers drag-over events between the
\* drag start and the drag end, React renders when it gets to it
NextDrag ==
  \/ pdfDoc = 0 /\ loadPDF(MaxPages)
  \/ \E i \in PageIndices :
       /\ pickedPage = NoPage
       /\ ~ draggedItemUpdate.pending
       /\ onDragStart_Handler(i)
  \/ \E i \in PageIndices : pickedPage # NoPage /\ onDragOver_Handler(i)
  \/ pickedPage # NoPage /\ onDragEnd_Handler
  \/ PageManager_render

SpecDrag == Init /\ [][NextDrag]_vars

\* The same pages in some order
IsPermutation(ps, qs) ==
  /\ Len(ps) = Len(qs)
  /\ \A k \in 1..Len(qs) :
       Cardinality({ j \in 1..Len(ps) : ps[j] = qs[k] })
         = Cardinality({ j \in 1..Len(qs) : qs[j] = qs[k] })

\* C37: after every drag-over of a drag PageManager has rendered, also one
\* handled before the render of an earlier drag-over, the picked page is at
\* the hovered index and the page list is a permutation of the one before.
C37_DragOverFollowsPointer ==
  [][ \A i \in PageIndices :
        ( /\ pickedPage # NoPage
          /\ draggedItem # NULL
          /\ onDragOver_Handler(i) )
        => /\ PageIdAt(pages', i) = pickedPage
           /\ IsPermutation(pages', pages)
    ]_vars

\* C37, second half alone: every drag-over leaves a permutation
C37_DragOverPermutes ==
  [][ \A i \in PageIndices :
        onDragOver_Handler(i) => IsPermutation(pages', pages) ]_vars

----------------------------------------------------------------------------
(* exportPDF as it runs: the lists are read once, the pages are written one *)
(* await at a time                                                          *)

\* The lists the loop would read if it went back to stateRef.current at
\* every page
ExportSource_Live(run) ==
  [numPages |-> run.numPages, pages |-> pages, annotations |-> annotations]

\* exportPDF: fileRecord, currentPages and currentAnnotations, the constants
\* the loop reads
ExportSource(run) ==
  [numPages |-> run.numPages, pages |-> run.pages,
   annotations |-> run.annotations]

\* exportPDF up to its first await: the record and the lists of stateRef are
\* taken
exportPDF_start ==
  /\ pdfDoc # 0
  /\ ~ exportRun.active
  /\ exportRun' = [active |-> TRUE, numPages |-> pdfDoc, pages |-> pages,
                   annotations |-> annotations, written |-> << >>]
  /\ lastEvent' = Event("exportPDF.start", << >>)
  /\ UNCHANGED << pageVars, draggedItem, appVars, editorVars, clock,
                  ocrTasks, renderVars, fileVars, dragVars, proxyVars >>

\* One turn of the loop over the pages: copyPages, setRotation, addPage and
\* the annotations of the page.  copyPages throws on a page the source does
\* not have, which ends the export in the outer catch.
exportPDF_step ==
  /\ exportRun.active
  /\ LET src == ExportSource(exportRun)
         i == Len(exportRun.written) + 1
     IN  /\ i <= Len(src.pages)
         /\ IF src.pages[i].originalIndex \notin 1..src.numPages
              THEN /\ exportRun' = NoExport
                   /\ lastEvent' = Event("exportPDF", << NoDocument, CalmEnv >>)
              ELSE /\ exportRun' =
                        [exportRun EXCEPT !.written = Append(@,
                           [source |-> src.pages[i].originalIndex,
                            rotation |-> src.pages[i].rotation,
                            ops |-> PageDraws(src.annotations, 1, i - 1,
                                              CalmEnv)])]
                   /\ lastEvent' = Event("exportPDF.page", << i >>)
  /\ UNCHANGED << pageVars, draggedItem, appVars, editorVars, clock,
                  ocrTasks, renderVars, fileVars, dragVars, proxyVars >>

\* After the loop: newPdf.save() and the download
exportPDF_finish ==
  /\ exportRun.active
  /\ Len(exportRun.written) >= Len(ExportSource(exportRun).pages)
  /\ exportRun' = NoExport
  /\ lastEvent' = Event("exportPDF",
                        << [status |-> "ok", pages |-> exportRun.written],
                           CalmEnv >>)
  /\ UNCHANGED << pageVars, draggedItem, appVars, editorVars, clock,
                  ocrTasks, renderVars, fileVars, dragVars, proxyVars >>

\* The store keeps working while an export runs: annotations are added to the
\* first page, changed and deleted, pages are dragged, deleted and turned
NextExportRun ==
  \/ pdfDoc = 0 /\ loadPDF(2)
  \/ \E id \in AnnotationIds :
       /\ 0 \in PageIndices /\ NoDrag /\ ~ HasAnnotation(annotations, id)
       /\ addAnnotation(StoreAnnotation(id, 0))
  \/ NoDrag /\ HasAnnotation(annotations, 1)
            /\ updateAnnotation(1, [x |-> Pct(30)])
  \/ \E id \in AnnotationIds :
       NoDrag /\ HasAnnotation(annotations, id) /\ deleteAnnotation(id)
  \/ \E i \in PageIndices : NoDrag /\ deletePage(i)
  \/ NoDrag /\ 0 \in PageIndices /\ onDragStart(0)
  \/ 1 \in PageIndices /\ onDragOver(1)
  \/ onDragEnd
  \/ NoDrag /\ 0 \in PageIndices /\ pages[1].rotation = 0
            /\ updatePageRotation(0, "right")
  \/ NoDrag /\ exportPDF_start
  \/ exportPDF_step
  \/ exportPDF_finish

SpecExportRun == Init /\ [][NextExportRun]_vars

\* C34: the document an export writes is the one its start state gives: the
\* lists taken at the start stay as they are while the export runs, and the
\* pages written are those of these lists.
C34_ExportUsesSnapshot ==
  [][ /\ ( exportRun.active /\ exportRun'.active )
         => /\ exportRun'.pages = exportRun.pages
            /\ exportRun'.annotations = exportRun.annotations
            /\ exportRun'.numPages = exportRun.numPages
      /\ exportPDF_start
         => /\ exportRun'.pages = pages
            /\ exportRun'.annotations = annotations
      /\ ( exportRun.active /\ lastEvent'.op = "exportPDF" )
         => lastEvent'.args[1] =
              ExportPDF(exportRun.numPages, exportRun.pages,
                        exportRun.annotations, CalmEnv)
    ]_vars

\* An export has just written a document that the store's present lists
\* would not give: the store changed while the export ran
C34_Witness ==
  /\ lastEvent.op = "exportPDF"
  /\ lastEvent.args[1].status = "ok"
  /\ Len(lastEvent.args[1].pages) > 0
  /\ lastEvent.args[1] # ExportPDF(pdfDoc, pages, annotations, CalmEnv)

----------------------------------------------------------------------------
(* The persistence worker and its proxy: requests, jobs and replies.  What  *)
(* the requests read and write is left out here; a reply carries the id     *)
(* and whether it is an error.                                              *)

MaxRequests == 2

RequestTypes ==
  { "GET_SETTING", "SET_SETTING", "SAVE_FILE", "GET_FILES", "DELETE_FILE" }

\* The ids sendToWorker has used so far
UsedIds == pendingRequests \cup { answers[k].id : k \in 1..Len(answers) }

RequestIds == 1..(MaxRequests + 1)

\* What the rest of the program holds while the worker and the proxy run
DocumentUnchanged ==
  UNCHANGED << pageVars, draggedItem, appVars, editorVars, clock, ocrTasks,
               renderVars, fileVars, dragVars, exportRun >>

\* sendToWorker: a new id, the entry in pendingRequests, the message posted
sendToWorker(type) ==
  /\ Cardinality(UsedIds) < MaxRequests
  /\ LET id == Cardinality(UsedIds) + 1
     IN  /\ pendingRequests' = pendingRequests \cup { id }
         /\ workerInbox' = Append(workerInbox, [id |-> id, type |-> type])
         /\ lastEvent' = Event("sendToWorker", << id, type >>)
  /\ UNCHANGED << db, workerJobs, mainInbox, answers >>
  /\ DocumentUnchanged

\* The switch of self.onmessage, entered with db open: the transaction is
\* made, SAVE_FILE awaits the hash, the others issue their request
Switched(msg) ==
  [id |-> msg.id, type |-> msg.type,
   stage |-> IF msg.type = "SAVE_FILE" THEN "hashing" ELSE "request"]

\* self.onmessage up to its first await, or up to its end when db is open
Worker_onmessage ==
  /\ Len(workerInbox) > 0
  /\ LET msg == Head(workerInbox)
     IN  /\ workerJobs' = workerJobs \cup
              { IF db THEN Switched(msg)
                      ELSE [id |-> msg.id, type |-> msg.type,
                            stage |-> "opening"] }
         /\ lastEvent' = Event("worker.onmessage", << msg.id, msg.type >>)
  /\ workerInbox' = Tail(workerInbox)
  /\ UNCHANGED << pendingRequests, db, mainInbox, answers >>
  /\ DocumentUnchanged

\* initDB settles.  request.onsuccess sets db and the handler goes on to the
\* switch; request.onerror rejects the promise awaited outside the try, so
\* the handler ends there and posts nothing.
initDB_settled(job, opened) ==
  /\ job \in workerJobs
  /\ job.stage = "opening"
  /\ IF opened
       THEN /\ db' = TRUE
            /\ workerJobs' = ( workerJobs \ { job } ) \cup { Switched(job) }
       ELSE /\ workerJobs' = workerJobs \ { job }
            /\ UNCHANGED db
  /\ lastEvent' = Event("initDB", << job.id, opened >>)
  /\ UNCHANGED << pendingRequests, workerInbox, mainInbox, answers >>
  /\ DocumentUnchanged

\* SAVE_FILE after 'await calculateHash': store.put on the transaction made
\* before the await.  A digest resolved in a later task finds the transaction
\* finished and put throws, which the catch answers with an error; a hash
\* that failed at once leaves the transaction active and put is issued.
calculateHash_settled(job, txActive) ==
  /\ job \in workerJobs
  /\ job.stage = "hashing"
  /\ IF txActive
       THEN /\ workerJobs' = ( workerJobs \ { job } ) \cup
                               { [job EXCEPT !.stage = "request"] }
            /\ UNCHANGED mainInbox
       ELSE /\ workerJobs' = workerJobs \ { job }
            /\ mainInbox' = Append(mainInbox, [id |-> job.id, error |-> TRUE])
  /\ lastEvent' = Event("calculateHash", << job.id, txActive >>)
  /\ UNCHANGED << pendingRequests, db, workerInbox, answers >>
  /\ DocumentUnchanged

\* The request or the transaction ends: req.onsuccess / tx.oncomplete post the
\* result; an error or an abort has no handler and posts nothing
request_settled(job, succeeded) ==
  /\ job \in workerJobs
  /\ job.stage = "request"
  /\ workerJobs' = workerJobs \ { job }
  /\ IF succeeded
       THEN mainInbox' = Append(mainInbox, [id |-> job.id, error |-> FALSE])
       ELSE UNCHANGED mainInbox
  /\ lastEvent' = Event("request", << job.id, succeeded >>)
  /\ UNCHANGED << pendingRequests, db, workerInbox, answers >>
  /\ DocumentUnchanged

\* worker.onmessage of the proxy: the promise of the id is settled and its
\* entry deleted
Proxy_onmessage ==
  /\ Len(mainInbox) > 0
  /\ LET msg == Head(mainInbox)
     IN  /\ pendingRequests' = pendingRequests \ { msg.id }
         /\ answers' = Append(answers, msg)
         /\ lastEvent' = Event("proxy.onmessage", << msg.id, msg.error >>)
  /\ mainInbox' = Tail(mainInbox)
  /\ UNCHANGED << db, workerInbox, workerJobs >>
  /\ DocumentUnchanged

WorkerStep ==
  \/ Worker_onmessage
  \/ \E job \in workerJobs, ok \in BOOLEAN : initDB_settled(job, ok)
  \/ \E job \in workerJobs, ok \in BOOLEAN : calculateHash_settled(job, ok)
  \/ \E job \in workerJobs, ok \in BOOLEAN : request_settled(job, ok)

NextWorker ==
  \/ \E type \in RequestTypes : sendToWorker(type)
  \/ Worker_onmessage
  \/ \E job \in workerJobs, ok \in BOOLEAN : initDB_settled(job, ok)
  \/ \E job \in workerJobs, ok \in BOOLEAN : calculateHash_settled(job, ok)
  \/ \E job \in workerJobs, ok \in BOOLEAN : request_settled(job, ok)
  \/ Proxy_onmessage

SpecWorker == Init /\ [][NextWorker]_vars

\* Messages are delivered and every open, digest, request and transaction
\* ends one way or the other
SpecWorkerFair ==
  /\ SpecWorker
  /\ WF_vars(WorkerStep)
  /\ WF_vars(Proxy_onmessage)

\* The messages posted to the proxy so far that carry the id
MessagesFor(id) ==
  Cardinality({ k \in 1..Len(answers) : answers[k].id = id })
  + Cardinality({ k \in 1..Len(mainInbox) : mainInbox[k].id = id })

\* C39: every request sent through sendToWorker is eventually answered, its
\* entry leaving pendingRequests, and no id is ever answered by more than one
\* message.
C39_EveryRequestAnswered ==
  /\ \A id \in RequestIds :
       ( id \in pendingRequests ) ~> ( id \notin pendingRequests )
  /\ [] ( \A id \in RequestIds : MessagesFor(id) <= 1 )

\* The part of C39 that holds: at most one message per id, and an entry
\* leaves pendingRequests only with its message
C39_AtMostOneAnswer ==
  \A id \in RequestIds :
    /\ MessagesFor(id) <= 1
    /\ id \in pendingRequests
         => \A k \in 1..Len(answers) : answers[k].id # id

====
